---------------------------- MODULE Spec2Model ----------------------------
(***************************************************************************)
(* Sensor trust verification engine: the ingest -> score -> persist ->     *)
(* ticket pipeline (dataIngestion.js, trustEngine.js v3.0) and the         *)
(* maintenance ticket store (maintenance.js, ticket routes).               *)
(*                                                                         *)
(* Numbers.  Probe values are integers in hundredths of their unit         *)
(* (moisture 30.5 % is 3050).  Scores are integers in units of 10^-4       *)
(* (1.0 is 10000), which is the precision toFixed(4) keeps.                *)
(***************************************************************************)
EXTENDS Integers, Sequences, FiniteSets, TLC

\* JavaScript null / undefined of a nullable column
Null == -999999

Abs(x) == IF x < 0 THEN -x ELSE x

Max2(a, b) == IF a >= b THEN a ELSE b

RECURSIVE SumSeq(_)
SumSeq(s) == IF s = <<>> THEN 0 ELSE Head(s) + SumSeq(Tail(s))

RECURSIVE MaxSeq(_)
MaxSeq(s) == IF Len(s) = 1 THEN s[1] ELSE Max2(s[1], MaxSeq(Tail(s)))

RECURSIVE MinSeq(_)
MinSeq(s) == IF Len(s) = 1 THEN s[1]
             ELSE IF s[1] <= MinSeq(Tail(s)) THEN s[1] ELSE MinSeq(Tail(s))

\* Array.prototype.filter(v => v !== null)
RECURSIVE FilterNull(_)
FilterNull(s) == IF s = <<>> THEN <<>>
                 ELSE IF Head(s) = Null THEN FilterNull(Tail(s))
                 ELSE <<Head(s)>> \o FilterNull(Tail(s))

\* orderBy desc: the store keeps rows in insertion order, queries read newest first
Reverse(s) == [i \in 1..Len(s) |-> s[Len(s) + 1 - i]]

\* take: n  /  slice(0, n)
Take(s, n) == SubSeq(s, 1, IF Len(s) < n THEN Len(s) ELSE n)

\* slice(1, n + 1)
Slice1(s, n) == SubSeq(s, 2, IF Len(s) < n + 1 THEN Len(s) ELSE n + 1)

\* toFixed: num/den rounded to the nearest integer, halves away from zero
RoundDiv(num, den) == IF num >= 0 THEN (2 * num + den) \div (2 * den)
                      ELSE -((2 * (-num) + den) \div (2 * den))

(***************************************************************************)
(* TRUST_CONFIG                                                            *)
(***************************************************************************)
Params == <<"moisture", "temperature", "ec", "ph">>

ParamSet == {"moisture", "temperature", "ec", "ph"}

ROOT_CAUSE == {"NORMAL", "SPIKE", "STATIC", "DRIFT", "ZONE_MISMATCH",
               "WEATHER_MISMATCH", "FIELD_EVENT", "IMPOSSIBLE_VALUE"}

SEVERITY == {"Critical", "High", "Medium", "Low", "None"}

\* WEIGHTS, in tenths
WEIGHT_TEMPORAL == 3
WEIGHT_CROSS == 5
WEIGHT_PHYSICAL == 2

\* PHYSICAL_LIMITS, hundredths of the unit
PHYSICAL_LIMITS ==
    [moisture    |-> [min |-> 0,   max |-> 10000],
     temperature |-> [min |-> 0,   max |-> 6000],
     ec          |-> [min |-> 0,   max |-> 1000],
     ph          |-> [min |-> 300, max |-> 1000]]

\* TEMPORAL_THRESHOLDS, percent
TEMPORAL_THRESHOLDS ==
    [moisture    |-> [normal |-> 25, moderate |-> 60],
     temperature |-> [normal |-> 8,  moderate |-> 15],
     ec          |-> [normal |-> 15, moderate |-> 30],
     ph          |-> [normal |-> 5,  moderate |-> 10]]

\* STATIC_THRESHOLDS, hundredths of the unit
STATIC_THRESHOLDS == [moisture |-> 50, temperature |-> 20, ec |-> 5, ph |-> 5]

\* DRIFT_THRESHOLDS, hundredths of the unit per reading
DRIFT_THRESHOLDS == [moisture |-> 80, temperature |-> 30, ec |-> 2, ph |-> 5]

\* CROSS_THRESHOLDS, percent
CROSS_THRESHOLDS ==
    [moisture    |-> [normal |-> 25, moderate |-> 50],
     temperature |-> [normal |-> 5,  moderate |-> 10],
     ec          |-> [normal |-> 15, moderate |-> 30],
     ph          |-> [normal |-> 3,  moderate |-> 6]]

\* PHYSICAL_PENALTIES, units of 10^-4
PHYSICAL_PENALTIES ==
    [HIGH_MOISTURE_NO_RAIN |-> 4000, SOIL_AIR_TEMP_GAP |-> 3000,
     PH_JUMP |-> 3000, EC_SPIKE |-> 3000]

TEMPORAL_SCORES ==
    [normal |-> 10000, moderate |-> 6000, extreme |-> 1000,
     static |-> 2000, drift |-> 4000]

CROSS_SCORES == [normal |-> 10000, moderate |-> 5000, extreme |-> 1000]

PHYSICAL_SCORES == [normal |-> 10000, moderate |-> 6500, extreme |-> 1000]

TRUST_BANDS ==
    [HIGHLY_RELIABLE |-> 8500, RELIABLE |-> 7800,
     UNCERTAIN |-> 7300, UNRELIABLE |-> 5000]

HISTORY_WINDOW == 10
DRIFT_WINDOW == 20
TREND_WINDOW == 10

\* evaluateTrustScore: readings: { take: 50 }
READINGS_TAKE == 50

\* evaluateTrustScore: sensor.readings.length < 5
MIN_READINGS == 5


(***************************************************************************)
(* HELPERS                                                                 *)
(***************************************************************************)
\* null coerces to 0 in arithmetic
Num(v) == IF v = Null THEN 0 ELSE v

\* linearSlope(values) as the exact fraction num/den (den > 0); 0 when n < 3
linearSlope(values) ==
    LET n == Len(values)
        S == SumSeq(values)
        num == SumSeq([i \in 1..n |-> (2 * (i - 1) - (n - 1)) * (n * values[i] - S)])
        den == SumSeq([i \in 1..n |-> (2 * (i - 1) - (n - 1)) * (2 * (i - 1) - (n - 1))])
    IN  IF n < 3 THEN [num |-> 0, den |-> 1]
        ELSE [num |-> 2 * num, den |-> n * den]

(***************************************************************************)
(* STEP 1 - temporal stability                                             *)
(***************************************************************************)
computeTemporalScore(param, newVal, history, driftHistory) ==
    LET thresh   == TEMPORAL_THRESHOLDS[param]
        statThr  == STATIC_THRESHOLDS[param]
        driftThr == DRIFT_THRESHOLDS[param]
        n        == Len(history)
        S        == SumSeq(history)
        slope    == linearSlope(driftHistory)
        dev      == Abs(n * Num(newVal) - S) * 100
        level    == IF dev <= thresh.normal * Abs(S) THEN "normal"
                    ELSE IF dev <= thresh.moderate * Abs(S) THEN "moderate"
                    ELSE "extreme"
    IN  IF n < 2
          THEN [score |-> TEMPORAL_SCORES.normal, level |-> "normal", cause |-> "NORMAL"]
        ELSE IF MaxSeq(history) - MinSeq(history) < statThr
          THEN [score |-> TEMPORAL_SCORES.static, level |-> "static", cause |-> "STATIC"]
        ELSE IF Len(driftHistory) >= 5 /\ Abs(slope.num) > driftThr * slope.den
          THEN [score |-> TEMPORAL_SCORES.drift, level |-> "drift", cause |-> "DRIFT"]
        ELSE IF S = 0
          THEN [score |-> TEMPORAL_SCORES.normal, level |-> "normal", cause |-> "NORMAL"]
        ELSE [score |-> TEMPORAL_SCORES[level], level |-> level,
              cause |-> IF level = "normal" THEN "NORMAL" ELSE "SPIKE"]

(***************************************************************************)
(* STEP 2 - cross-sensor agreement                                         *)
(***************************************************************************)
\* JavaScript NaN (arithmetic on undefined)
NaN == -888888

\* One neighbour's change against its own history, in hundredths of a percent;
\* zoneReadings[zoneHistories.indexOf(hist)] is undefined past the end of
\* zoneReadings, which makes the change NaN.
neighbourChange(zoneReadings, hist, idx) ==
    LET hS == SumSeq(hist)
        hn == Len(hist)
    IN  IF hn < 2 THEN 0
        ELSE IF hS = 0 THEN 0
        ELSE IF idx > Len(zoneReadings) THEN NaN
        ELSE (10000 * Abs(hn * zoneReadings[idx] - hS)) \div Abs(hS)

\* mean(neighbourChanges) > thresh.normal; any NaN makes the comparison false
neighboursAlsoChanged(thresh, zoneReadings, zoneHistories) ==
    LET k == Len(zoneHistories)
        changes == [i \in 1..k |-> neighbourChange(zoneReadings, zoneHistories[i], i)]
    IN  /\ k > 0
        /\ \A i \in 1..k : changes[i] # NaN
        /\ SumSeq(changes) > thresh.normal * 100 * k

computeCrossScore(param, val, zoneReadings, zoneHistories) ==
    LET thresh == CROSS_THRESHOLDS[param]
        n      == Len(zoneReadings)
        S      == SumSeq(zoneReadings)
        dev    == Abs(n * Num(val) - S) * 100
    IN  IF n = 0
          THEN [score |-> CROSS_SCORES.normal, level |-> "normal", cause |-> "NORMAL"]
        ELSE IF S = 0
          THEN [score |-> CROSS_SCORES.normal, level |-> "normal", cause |-> "NORMAL"]
        ELSE IF dev <= thresh.normal * Abs(S)
          THEN [score |-> CROSS_SCORES.normal, level |-> "normal", cause |-> "NORMAL"]
        ELSE IF dev <= thresh.moderate * Abs(S)
          THEN [score |-> CROSS_SCORES.moderate, level |-> "moderate", cause |-> "ZONE_MISMATCH"]
        ELSE IF neighboursAlsoChanged(thresh, zoneReadings, zoneHistories)
          THEN [score |-> CROSS_SCORES.moderate, level |-> "moderate", cause |-> "FIELD_EVENT"]
        ELSE [score |-> CROSS_SCORES.extreme, level |-> "extreme", cause |-> "ZONE_MISMATCH"]

(***************************************************************************)
(* STEP 3 - physical plausibility                                          *)
(***************************************************************************)
OutOfBounds(reading, param) ==
    /\ reading[param] # Null
    /\ \/ reading[param] < PHYSICAL_LIMITS[param].min
       \/ reading[param] > PHYSICAL_LIMITS[param].max

computePhysicalScore(reading, prevPh, prevEc, airTemp, isRaining, irrigationActive) ==
    LET pen == PHYSICAL_PENALTIES
        highMoist == /\ reading.moisture # Null
                     /\ reading.moisture > 8500
                     /\ ~isRaining
                     /\ ~irrigationActive
        tempGap   == /\ airTemp # Null
                     /\ Abs(Num(reading.temperature) - airTemp) > 1000
        phJump    == /\ prevPh # Null
                     /\ Abs(Num(reading.ph) - prevPh) > 150
        ecSpike   == /\ prevEc # Null
                     /\ prevEc > 0
                     /\ Abs(Num(reading.ec) - prevEc) * 100 > 25 * prevEc
        raw       == 10000 - (IF highMoist THEN pen.HIGH_MOISTURE_NO_RAIN ELSE 0)
                           - (IF tempGap THEN pen.SOIL_AIR_TEMP_GAP ELSE 0)
                           - (IF phJump THEN pen.PH_JUMP ELSE 0)
                           - (IF ecSpike THEN pen.EC_SPIKE ELSE 0)
        score     == Max2(PHYSICAL_SCORES.extreme, raw)
        causes    == (IF highMoist \/ tempGap THEN {"WEATHER_MISMATCH"} ELSE {})
                     \cup (IF phJump \/ ecSpike THEN {"SPIKE"} ELSE {})
    IN  IF \E p \in ParamSet : OutOfBounds(reading, p)
          THEN [score |-> PHYSICAL_SCORES.extreme, level |-> "extreme",
                causes |-> {"IMPOSSIBLE_VALUE"}]
        ELSE [score |-> score,
              level |-> IF score >= 9000 THEN "normal"
                        ELSE IF score >= 6000 THEN "moderate" ELSE "extreme",
              causes |-> IF causes = {} THEN {"NORMAL"} ELSE causes]

(***************************************************************************)
(* STEPS 4-6 - aggregation and interpretation                              *)
(***************************************************************************)
\* parseFloat((0.3 t + 0.5 c + 0.2 p).toFixed(4))
computeParamTrust(temporalScore, crossScore, physicalScore) ==
    RoundDiv(WEIGHT_TEMPORAL * temporalScore + WEIGHT_CROSS * crossScore
             + WEIGHT_PHYSICAL * physicalScore, 10)

\* a mean that leaves the ph probe out of the count
computeSensorTrustOfThree(paramTrusts) ==
    RoundDiv(SumSeq([i \in 1..Len(Params) |-> paramTrusts[Params[i]]]), Len(Params) - 1)

\* parseFloat((sum / values.length).toFixed(4))
computeSensorTrust(paramTrusts) ==
    RoundDiv(SumSeq([i \in 1..Len(Params) |-> paramTrusts[Params[i]]]), Len(Params))

interpretTrust(score) ==
    IF score >= TRUST_BANDS.HIGHLY_RELIABLE
      THEN [status |-> "Healthy", label |-> "Highly Reliable"]
    ELSE IF score >= TRUST_BANDS.RELIABLE
      THEN [status |-> "Healthy", label |-> "Reliable"]
    ELSE IF score >= TRUST_BANDS.UNCERTAIN
      THEN [status |-> "Warning", label |-> "Uncertain"]
    ELSE IF score >= TRUST_BANDS.UNRELIABLE
      THEN [status |-> "Anomalous", label |-> "Unreliable"]
    ELSE [status |-> "Anomalous", label |-> "Anomaly"]

\* a severity ladder that tests the 0.65 rule before the drift and weather rules
computeSeverityLowFirst(sensorTrustScore, rootCauses) ==
    IF "IMPOSSIBLE_VALUE" \in rootCauses THEN "Critical"
    ELSE IF sensorTrustScore < 1500 THEN "Critical"
    ELSE IF "ZONE_MISMATCH" \in rootCauses /\ sensorTrustScore < 5000 THEN "High"
    ELSE IF "SPIKE" \in rootCauses /\ sensorTrustScore < 5000 THEN "High"
    ELSE IF "STATIC" \in rootCauses THEN "High"
    ELSE IF sensorTrustScore < 6500 THEN "Low"
    ELSE IF "DRIFT" \in rootCauses THEN "Medium"
    ELSE IF "WEATHER_MISMATCH" \in rootCauses THEN "Medium"
    ELSE "None"

computeSeverity(sensorTrustScore, rootCauses) ==
    IF "IMPOSSIBLE_VALUE" \in rootCauses THEN "Critical"
    ELSE IF sensorTrustScore < 1500 THEN "Critical"
    ELSE IF "ZONE_MISMATCH" \in rootCauses /\ sensorTrustScore < 5000 THEN "High"
    ELSE IF "SPIKE" \in rootCauses /\ sensorTrustScore < 5000 THEN "High"
    ELSE IF "STATIC" \in rootCauses THEN "High"
    ELSE IF "DRIFT" \in rootCauses THEN "Medium"
    ELSE IF "WEATHER_MISMATCH" \in rootCauses THEN "Medium"
    ELSE IF sensorTrustScore < 6500 THEN "Low"
    ELSE "None"

\* recentTrustScores: the sensor's last TREND_WINDOW results, newest first
computeHealthTrend(recentTrustScores) ==
    LET n      == Len(recentTrustScores)
        slope  == linearSlope([i \in 1..n |-> recentTrustScores[i].score])
        anom   == Cardinality({i \in 1..n : recentTrustScores[i].status = "Anomalous"})
    IN  IF n < 3 THEN [trend |-> "stable", slope |-> 0, anomalyRate |-> 0]
        ELSE [trend |-> IF slope.num > 100 * slope.den THEN "improving"
                        ELSE IF slope.num < -100 * slope.den THEN "degrading"
                        ELSE "stable",
              slope |-> RoundDiv(slope.num, slope.den),
              anomalyRate |-> RoundDiv(100 * anom, n)]

\* computeFailurePrediction(healthTrend): "" for null; slope in 10^-4,
\* anomalyRate in hundredths
computeFailurePrediction(healthTrend) ==
    IF healthTrend.slope < -300 THEN "Rapid degradation detected"
    ELSE IF healthTrend.trend = "degrading" /\ healthTrend.anomalyRate > 30
      THEN "Sensor likely to fail soon"
    ELSE ""

classifyRootCauses(paramDetails, physical) ==
    LET causes == {paramDetails[p].temporalCause : p \in ParamSet}
                  \cup {paramDetails[p].crossCause : p \in ParamSet}
                  \cup physical.causes
        faults == causes \ {"NORMAL"}
    IN  IF faults = {} THEN {"NORMAL"} ELSE faults

\* The message is a join of fixed parts; it is kept as the tuple of facts that
\* select the parts, of which the message is an injective rendering.
buildDiagnosticMessage(paramDetails, rootCauses, healthTrend) ==
    [lowTrust  |-> {p \in ParamSet : paramDetails[p].paramTrust < 5000},
     causes    |-> rootCauses,
     degrading |-> IF healthTrend.trend = "degrading"
                   THEN healthTrend.anomalyRate ELSE -1]

(***************************************************************************)
(* The scorer of evaluateTrustScore: everything between the store reads    *)
(* and prisma.trustScore.create.                                           *)
(*   readings     the sensor's readings, newest first (take 50)            *)
(*   recentTrust  the sensor's trust scores, newest first (take 10)        *)
(*   zoneSensors  one entry per other sensor of the zone: its readings,    *)
(*                newest first (take HISTORY_WINDOW + 1)                   *)
(***************************************************************************)
Column(rows, param) == [i \in 1..Len(rows) |-> rows[i][param]]

\* zoneSensors.map(s => s.readings[0]?.[param]).filter(v => v != null)
zoneArray(zoneSensors, param) ==
    FilterNull([i \in 1..Len(zoneSensors) |->
                  IF zoneSensors[i] = <<>> THEN Null ELSE zoneSensors[i][1][param]])

\* zoneSensors.map(s => s.readings.slice(1).map(r => r[param]).filter(v => v != null))
zoneHistory(zoneSensors, param) ==
    [i \in 1..Len(zoneSensors) |->
        IF zoneSensors[i] = <<>> THEN <<>>
        ELSE FilterNull(Column(Tail(zoneSensors[i]), param))]

paramDetail(param, readings, zoneSensors, physical) ==
    LET latest   == readings[1]
        history  == Slice1(readings, HISTORY_WINDOW)
        driftWin == Slice1(readings, DRIFT_WINDOW)
        temporal == computeTemporalScore(param, latest[param],
                        FilterNull(Column(history, param)),
                        FilterNull(Column(driftWin, param)))
        cross    == computeCrossScore(param, latest[param],
                        zoneArray(zoneSensors, param),
                        zoneHistory(zoneSensors, param))
    IN  [temporal      |-> temporal.score,
         temporalLevel |-> temporal.level,
         temporalCause |-> temporal.cause,
         cross         |-> cross.score,
         crossLevel    |-> cross.level,
         crossCause    |-> cross.cause,
         physical      |-> physical.score,
         paramTrust    |-> computeParamTrust(temporal.score, cross.score, physical.score)]

\* a hand-off test that forgets the field-event exclusion
needsTicketWhenAnomalous(status, rootCauses) == status = "Anomalous"

\* status === 'Anomalous' && !rootCauses.includes(ROOT_CAUSE.FIELD_EVENT)
needsTicket(status, rootCauses) ==
    status = "Anomalous" /\ "FIELD_EVENT" \notin rootCauses

scoreReading(readings, recentTrust, zoneSensors, zoneReliability) ==
    LET latest   == readings[1]
        hasPrev  == Len(readings) >= 2
        physical == computePhysicalScore(latest,
                        IF hasPrev THEN readings[2].ph ELSE Null,
                        IF hasPrev THEN readings[2].ec ELSE Null,
                        latest.airTemp,
                        latest.isRaining = 1,
                        latest.irrigationActive = 1)
        paramDetails == [p \in ParamSet |-> paramDetail(p, readings, zoneSensors, physical)]
        paramTrusts  == [p \in ParamSet |-> paramDetails[p].paramTrust]
        sensorTrustScore == computeSensorTrust(paramTrusts)
        interp      == interpretTrust(sensorTrustScore)
        rootCauses  == classifyRootCauses(paramDetails, physical)
        severity    == computeSeverity(sensorTrustScore, rootCauses)
        healthTrend == computeHealthTrend(recentTrust)
    IN  [score           |-> sensorTrustScore,
         status          |-> interp.status,
         label           |-> interp.label,
         rootCauses      |-> rootCauses,
         severity        |-> severity,
         diagnostic      |-> buildDiagnosticMessage(paramDetails, rootCauses, healthTrend),
         paramTrusts     |-> paramTrusts,
         healthTrend     |-> healthTrend.trend,
         healthSlope     |-> healthTrend.slope,
         anomalyRate     |-> healthTrend.anomalyRate,
         zoneReliability |-> zoneReliability]

\* computeZoneReliability: zoneTrusts holds the latest trust score of each zone
\* sensor that has one; the mean is kept to three decimals
computeZoneReliability(nZoneSensors, zoneTrusts) ==
    IF nZoneSensors = 0 THEN Null
    ELSE IF zoneTrusts = <<>> THEN Null
    ELSE 10 * RoundDiv(SumSeq([i \in 1..Len(zoneTrusts) |-> zoneTrusts[i].score]),
                       10 * Len(zoneTrusts))

(***************************************************************************)
(* Bounds of the model                                                     *)
(***************************************************************************)
\* ingestReading calls (Spec) or createMaintenanceTicket calls (SpecTickets)
\* started in one behaviour
MaxCalls == 2

\* ticket status updates in one behaviour
MaxUpdates == 2

\* request handlers that can be in flight at once
Procs == {1, 2}

\* registered sensors, both of zone z1, and an id that is not registered
SensorIds == {"s1", "s2"}

UnknownId == "s9"

\* realtime loader: const BATCH_SIZE = 10, the readings inserted per sensor and run
BATCH_SIZE == 10

\* readings.length of each sensor of the dataset file
DatasetLen == 12

\* runs of insertRealtimeBatch in one behaviour: the initial one and the timer's
MaxRuns == 3

\* the sensors of the dataset file, in file order: one registered, one not yet
DatasetSensors == <<"s1", UnknownId>>

\* the order in which the store returns sensor rows
SensorOrder == <<"s1", "s2">>

ZoneOf(s) == "z1"

\* a Reading row; ingestReading writes moisture, temperature and ec only
Row(m, t, e) ==
    [moisture |-> m, temperature |-> t, ec |-> e, ph |-> Null,
     airTemp |-> Null, isRaining |-> Null, irrigationActive |-> Null]

\* request payloads: a steady reading, a jump of moisture and temperature,
\* a moisture beyond the physical limit
Payloads == {[moisture |-> 3000,  temperature |-> 2200, ec |-> 120],
             [moisture |-> 8700,  temperature |-> 3000, ec |-> 120],
             [moisture |-> 15000, temperature |-> 2200, ec |-> 120]}

\* readings a sensor holds at the start, oldest first: too few for a verdict
SeedRows(n) ==
    SubSeq(<<Row(3100, 2300, 130), Row(3000, 2200, 120),
             Row(3100, 2300, 130), Row(3000, 2200, 120)>>, 1, n)

\* the stores a behaviour starts from: s1 one reading short of a verdict,
\* s2 one or two readings short
SeedStores == {[s \in SensorIds |-> SeedRows(IF s = "s1" THEN 4 ELSE n)] : n \in {3, 4}}

\* registerSensor: trustScore.create({ score: 100.0, status: 'Healthy' })
InitialTrust ==
    [score |-> 1000000, status |-> "Healthy", label |-> "", rootCauses |-> {},
     severity |-> "", diagnostic |-> [lowTrust |-> {}, causes |-> {}, degrading |-> -1],
     paramTrusts |-> [p \in ParamSet |-> Null], healthTrend |-> "",
     healthSlope |-> Null, anomalyRate |-> Null, zoneReliability |-> Null]

NoVerdict == [status |-> "null"]

NoArgs == [sensorId |-> "", moisture |-> Null, temperature |-> Null, ec |-> Null]

NoSnap == [readings |-> <<>>, trustScores |-> <<>>, zoneSensors |-> <<>>]

(***************************************************************************)
(* State                                                                   *)
(***************************************************************************)
VARIABLES
    sensors,        \* Sensor table: the registered sensorIds
    readings,       \* Reading table: per sensor, rows in insertion order
    trustScores,    \* TrustScore table: per sensor, rows in insertion order
    tickets,        \* Ticket table: rows in insertion order, the index is the id
    pc,             \* per handler: the await it is suspended at
    args,           \* per handler: the data passed to ingestReading
    snap,           \* per handler: what evaluateTrustScore has read so far
    verdict,        \* per handler: the scorer's result (NoVerdict before / null)
    existingTicket, \* per handler: the id findFirst returned (0 for null)
    outcome,        \* per handler: "" while running, then "ok" or "error"
    patchResp,      \* HTTP status of the last ticket PATCH (0 before any)
    nCalls,         \* calls started
    nUpdates,       \* ticket status updates made
    seeded,         \* history: the Reading table at the start
    prior,          \* history: per handler, the sensor's readings before its create
    seen,           \* history: per handler, readings.length in evaluateTrustScore
    trace,          \* history: per handler, the store writes and ticket reads it made
    evaluated,      \* history: per sensor, readings.length seen by each persisted verdict
    calc,           \* a scorer function under test: its name, arguments and result
    emitted,        \* the socket.io events emitted, in order
    batch,          \* ingestBatchReadings: its caller, readings, results and loop history
    rateLimitStore, \* rateLimit.js: clientId -> [count, resetTime]
    now,            \* Date.now(), in ticks
    response,       \* the last answer of a rate-limited route
    requestLog,     \* history: the requests that reached a limiter, in order
    stateFile,      \* realtime loader: the state file, sensor -> saved position
    inserted,       \* realtime loader: per dataset reading, the rows createMany made of it
    runs            \* realtime loader: per run of insertRealtimeBatch, where it stands

pipelineVars == <<sensors, readings, trustScores, tickets, pc, args, snap, verdict,
                  existingTicket, outcome, patchResp, nCalls, nUpdates, seeded, prior,
                  seen, trace, evaluated>>

limiterVars == <<rateLimitStore, now, response, requestLog>>

loaderVars == <<stateFile, inserted, runs>>

auxVars == <<calc, emitted, batch, limiterVars, loaderVars>>

vars == <<pipelineVars, auxVars>>

NoCalc == [fn |-> "", args |-> <<>>, result |-> <<>>, applied |-> FALSE]

NoResponse == [status |-> 0, limiter |-> "", clientId |-> ""]

\* no call of ingestBatchReadings yet
NoBatch == [proc |-> 0, readings |-> <<>>, results |-> <<>>, log |-> <<>>, returned |-> FALSE]

\* a run of insertRealtimeBatch that has not started
NoRun == [pc |-> "idle", state |-> <<>>, i |-> 0, endIndex |-> 0]

\* the stores after registration and seeding, no handler running
InitPipeline ==
    /\ sensors = SensorIds
    /\ readings \in SeedStores
    /\ seeded = readings
    /\ trustScores = [s \in SensorIds |-> <<InitialTrust>>]
    /\ tickets = <<>>
    /\ pc = [p \in Procs |-> "idle"]
    /\ args = [p \in Procs |-> NoArgs]
    /\ snap = [p \in Procs |-> NoSnap]
    /\ verdict = [p \in Procs |-> NoVerdict]
    /\ existingTicket = [p \in Procs |-> 0]
    /\ outcome = [p \in Procs |-> ""]
    /\ patchResp = 0
    /\ nCalls = 0
    /\ nUpdates = 0
    /\ prior = [p \in Procs |-> 0]
    /\ seen = [p \in Procs |-> 0]
    /\ trace = [p \in Procs |-> {}]
    /\ evaluated = [s \in SensorIds |-> <<>>]

\* no event emitted, no batch running, no request seen by the rate limiter,
\* no state file written and no run of the realtime loader started
InitQuiet ==
    /\ emitted = <<>>
    /\ batch = NoBatch
    /\ rateLimitStore = <<>>
    /\ now = 0
    /\ response = NoResponse
    /\ requestLog = <<>>
    /\ stateFile = [i \in 1..Len(DatasetSensors) |-> 0]
    /\ inserted = [i \in 1..Len(DatasetSensors) |-> [k \in 1..DatasetLen |-> 0]]
    /\ runs = [r \in 1..MaxRuns |-> NoRun]

Init ==
    /\ InitPipeline
    /\ InitQuiet
    /\ calc = NoCalc

(***************************************************************************)
(* The store reads of evaluateTrustScore, as functions of the tables       *)
(***************************************************************************)
\* sensor.readings: orderBy timestamp desc, take 50
ownReadings(rd, s) == Take(Reverse(rd[s]), READINGS_TAKE)

\* sensor.trustScores: orderBy lastEvaluated desc, take TREND_WINDOW
ownTrustScores(ts, s) == Take(Reverse(ts[s]), TREND_WINDOW)

\* the other sensors of the zone, in the order findMany returns them
zonePeers(s) ==
    SelectSeq(SensorOrder, LAMBDA o : o \in sensors /\ ZoneOf(o) = ZoneOf(s) /\ o # s)

\* zoneSensors: each peer's readings, newest first, take HISTORY_WINDOW + 1
zoneReadings(rd, s) ==
    [i \in 1..Len(zonePeers(s)) |-> Take(Reverse(rd[zonePeers(s)[i]]), HISTORY_WINDOW + 1)]

\* trustScore.findMany distinct on sensorId, newest first: each peer's latest row
zoneTrusts(ts, s) ==
    LET having == SelectSeq(zonePeers(s), LAMBDA o : ts[o] # <<>>)
    IN  [i \in 1..Len(having) |-> ts[having[i]][Len(ts[having[i]])]]

\* a history test that asks for one reading more
insufficientHistoryOneMore(n) == n < MIN_READINGS + 1

\* sensor.readings.length < 5
insufficientHistory(n) == n < MIN_READINGS

(***************************************************************************)
(* ingestReading (dataIngestion.js) with evaluateTrustScore and            *)
(* createMaintenanceTicket inlined: one action per awaited store call.     *)
(***************************************************************************)
\* a request arrives: ingestReading(data) runs up to its first await
CallIngest(p, sensorId, data) ==
    /\ pc[p] = "idle"
    /\ nCalls < MaxCalls
    /\ nCalls' = nCalls + 1
    /\ pc' = [pc EXCEPT ![p] = "findSensor"]
    /\ args' = [args EXCEPT ![p] = [sensorId |-> sensorId, moisture |-> data.moisture,
                                    temperature |-> data.temperature, ec |-> data.ec]]
    /\ UNCHANGED <<sensors, readings, trustScores, tickets, snap, verdict,
                   existingTicket, outcome, patchResp, nUpdates, seeded, prior,
                   seen, trace, evaluated>>
    /\ UNCHANGED auxVars

\* a lookup that takes every id for registered
sensorMissingNever(sensorId) == FALSE

\* !sensor after prisma.sensor.findUnique({ where: { sensorId } })
sensorMissing(sensorId) == sensorId \notin sensors

\* prisma.sensor.findUnique({ where: { sensorId } }); throws when there is none
FindSensor(p) ==
    /\ pc[p] = "findSensor"
    /\ IF ~sensorMissing(args[p].sensorId)
       THEN /\ pc' = [pc EXCEPT ![p] = "createReading"]
            /\ UNCHANGED outcome
       ELSE /\ pc' = [pc EXCEPT ![p] = "done"]
            /\ outcome' = [outcome EXCEPT ![p] = "error"]
    /\ UNCHANGED <<sensors, readings, trustScores, tickets, args, snap, verdict,
                   existingTicket, patchResp, nCalls, nUpdates, seeded, prior,
                   seen, trace, evaluated>>
    /\ UNCHANGED auxVars

\* a write that replaces the sensor's newest row
readingUpsert(rows, row) ==
    IF rows = <<>> THEN <<row>> ELSE [rows EXCEPT ![Len(rows)] = row]

\* the Reading table of one sensor after prisma.reading.create
readingCreate(rows, row) == Append(rows, row)

\* prisma.reading.create({ data: { sensorId, moisture, temperature, ec } })
CreateReading(p) ==
    LET s == args[p].sensorId IN
    /\ pc[p] = "createReading"
    /\ readings' = [readings EXCEPT
                      ![s] = readingCreate(@, Row(args[p].moisture, args[p].temperature,
                                                  args[p].ec))]
    /\ prior' = [prior EXCEPT ![p] = Len(readings[s])]
    /\ trace' = [trace EXCEPT ![p] = @ \cup {"reading.create"}]
    /\ pc' = [pc EXCEPT ![p] = "loadSensor"]
    /\ UNCHANGED <<sensors, trustScores, tickets, args, snap, verdict, existingTicket,
                   outcome, patchResp, nCalls, nUpdates, seeded, seen, evaluated>>
    /\ UNCHANGED auxVars

\* evaluateTrustScore: prisma.sensor.findUnique with readings and trustScores;
\* returns null on short history, and ingestReading then returns the reading
LoadSensor(p) ==
    LET s    == args[p].sensorId
        rows == ownReadings(readings, s)
    IN
    /\ pc[p] = "loadSensor"
    /\ seen' = [seen EXCEPT ![p] = Len(rows)]
    /\ IF insufficientHistory(Len(rows))
       THEN /\ pc' = [pc EXCEPT ![p] = "done"]
            /\ outcome' = [outcome EXCEPT ![p] = "ok"]
            /\ UNCHANGED snap
       ELSE /\ pc' = [pc EXCEPT ![p] = "loadZone"]
            /\ snap' = [snap EXCEPT ![p] =
                          [readings    |-> rows,
                           trustScores |-> ownTrustScores(trustScores, s),
                           zoneSensors |-> <<>>]]
            /\ UNCHANGED outcome
    /\ UNCHANGED <<sensors, readings, trustScores, tickets, args, verdict,
                   existingTicket, patchResp, nCalls, nUpdates, seeded, prior,
                   trace, evaluated>>
    /\ UNCHANGED auxVars

\* prisma.sensor.findMany({ where: { zone, id: { not: sensorId } }, include: readings })
LoadZone(p) ==
    /\ pc[p] = "loadZone"
    /\ snap' = [snap EXCEPT ![p].zoneSensors = zoneReadings(readings, args[p].sensorId)]
    /\ pc' = [pc EXCEPT ![p] = "zoneReliability"]
    /\ UNCHANGED <<sensors, readings, trustScores, tickets, args, verdict,
                   existingTicket, outcome, patchResp, nCalls, nUpdates, seeded,
                   prior, seen, trace, evaluated>>
    /\ UNCHANGED auxVars

\* the scorer has run on the snapshot; computeZoneReliability reads the zone's
\* latest trust scores, which completes the verdict
LoadZoneTrust(p) ==
    /\ pc[p] = "zoneReliability"
    /\ verdict' = [verdict EXCEPT ![p] =
                     scoreReading(snap[p].readings, snap[p].trustScores,
                                  snap[p].zoneSensors,
                                  computeZoneReliability(Len(snap[p].zoneSensors),
                                      zoneTrusts(trustScores, args[p].sensorId)))]
    /\ pc' = [pc EXCEPT ![p] = "saveTrust"]
    /\ UNCHANGED <<sensors, readings, trustScores, tickets, args, snap,
                   existingTicket, outcome, patchResp, nCalls, nUpdates, seeded,
                   prior, seen, trace, evaluated>>
    /\ UNCHANGED auxVars

\* prisma.trustScore.create, then the hand-off test of evaluateTrustScore
SaveTrust(p) ==
    LET s == args[p].sensorId IN
    /\ pc[p] = "saveTrust"
    /\ trustScores' = [trustScores EXCEPT ![s] = Append(@, verdict[p])]
    /\ evaluated' = [evaluated EXCEPT ![s] = Append(@, Len(snap[p].readings))]
    /\ trace' = [trace EXCEPT ![p] = @ \cup {"trustScore.create"}]
    /\ IF needsTicket(verdict[p].status, verdict[p].rootCauses)
       THEN /\ pc' = [pc EXCEPT ![p] = "ticketFind"]
            /\ UNCHANGED outcome
       ELSE /\ pc' = [pc EXCEPT ![p] = "done"]
            /\ outcome' = [outcome EXCEPT ![p] = "ok"]
    /\ UNCHANGED <<sensors, readings, tickets, args, snap, verdict, existingTicket,
                   patchResp, nCalls, nUpdates, seeded, prior, seen>>
    /\ UNCHANGED auxVars

(***************************************************************************)
(* createMaintenanceTicket (maintenance.js)                                *)
(***************************************************************************)
openTicketsOf(tk, s) ==
    {t \in 1..Len(tk) : tk[t].sensorId = s /\ tk[t].status = "Open"}

\* the row createMaintenanceTicket leaves when findFirst returned one:
\* it returns existingTicket and writes nothing
onExistingTicket(ticket, issue, severity) == ticket

\* prisma.ticket.findFirst({ where: { sensorId, status: 'Open' } })
TicketFindFirst(p) ==
    LET s == args[p].sensorId IN
    /\ pc[p] = "ticketFind"
    /\ trace' = [trace EXCEPT ![p] = @ \cup {"ticket.findFirst"}]
    /\ IF openTicketsOf(tickets, s) # {}
       THEN /\ \E t \in openTicketsOf(tickets, s) :
                 /\ existingTicket' = [existingTicket EXCEPT ![p] = t]
                 /\ tickets' = [tickets EXCEPT ![t] =
                       onExistingTicket(@, verdict[p].diagnostic, verdict[p].severity)]
            /\ pc' = [pc EXCEPT ![p] = "done"]
            /\ outcome' = [outcome EXCEPT ![p] = "ok"]
       ELSE /\ pc' = [pc EXCEPT ![p] = "ticketCreate"]
            /\ UNCHANGED <<tickets, outcome, existingTicket>>
    /\ UNCHANGED <<sensors, readings, trustScores, args, snap, verdict, patchResp,
                   nCalls, nUpdates, seeded, prior, seen, evaluated>>
    /\ UNCHANGED auxVars

\* data of prisma.ticket.create: severity || 'Medium', status 'Open'
newTicket(sensorId, issue, severity) ==
    [sensorId |-> sensorId, issue |-> issue,
     severity |-> IF severity = "" THEN "Medium" ELSE severity,
     status |-> "Open", resolvedAt |-> Null]

TicketCreate(p) ==
    /\ pc[p] = "ticketCreate"
    /\ tickets' = Append(tickets,
                    newTicket(args[p].sensorId, verdict[p].diagnostic, verdict[p].severity))
    /\ trace' = [trace EXCEPT ![p] = @ \cup {"ticket.create"}]
    /\ pc' = [pc EXCEPT ![p] = "done"]
    /\ outcome' = [outcome EXCEPT ![p] = "ok"]
    /\ UNCHANGED <<sensors, readings, trustScores, args, snap, verdict, existingTicket,
                   patchResp, nCalls, nUpdates, seeded, prior, seen, evaluated>>
    /\ UNCHANGED auxVars

\* the handler has answered; its locals are gone (a call made by
\* ingestBatchReadings returns into its loop instead)
Return(p) ==
    /\ pc[p] = "done"
    /\ batch.proc # p
    /\ pc' = [pc EXCEPT ![p] = "idle"]
    /\ args' = [args EXCEPT ![p] = NoArgs]
    /\ snap' = [snap EXCEPT ![p] = NoSnap]
    /\ verdict' = [verdict EXCEPT ![p] = NoVerdict]
    /\ existingTicket' = [existingTicket EXCEPT ![p] = 0]
    /\ outcome' = [outcome EXCEPT ![p] = ""]
    /\ prior' = [prior EXCEPT ![p] = 0]
    /\ seen' = [seen EXCEPT ![p] = 0]
    /\ trace' = [trace EXCEPT ![p] = {}]
    /\ UNCHANGED <<sensors, readings, trustScores, tickets, patchResp, nCalls,
                   nUpdates, seeded, evaluated>>
    /\ UNCHANGED auxVars

(***************************************************************************)
(* updateTicketStatus (maintenance.js) and the PATCH /api/tickets/:id      *)
(* routes in front of it.                                                  *)
(***************************************************************************)
\* the vocabulary of the ticket store
TicketStatuses == {"Open", "InProgress", "Resolved"}

\* validStatuses of validateTicketStatus
validStatuses == {"OPEN", "IN_PROGRESS", "RESOLVED", "CLOSED"}

\* request bodies tried: both vocabularies and a missing status
BodyStatuses == TicketStatuses \cup validStatuses \cup {""}

\* updateData of updateTicketStatus applied to a row
updatedTicket(ticket, newStatus) ==
    [ticket EXCEPT !.status = newStatus,
                   !.resolvedAt = IF newStatus = "Resolved" THEN 1 ELSE @]

\* validateTicketStatus: TRUE when the request goes on to the controller
validateTicketStatus(status) == status # "" /\ status \in validStatuses

\* updateTicketStatus(ticketId, newStatus) behind a route that does not validate
\* (server.js, routes/ticketRoutes.js); prisma.ticket.update throws on a missing id
UpdateTicketStatus(t, newStatus) ==
    /\ nUpdates < MaxUpdates
    /\ nUpdates' = nUpdates + 1
    /\ IF t \in 1..Len(tickets)
       THEN /\ tickets' = [tickets EXCEPT ![t] = updatedTicket(@, newStatus)]
            /\ patchResp' = 200
       ELSE /\ patchResp' = 400
            /\ UNCHANGED tickets
    /\ UNCHANGED <<sensors, readings, trustScores, pc, args, snap, verdict,
                   existingTicket, outcome, nCalls, seeded, prior, seen, trace,
                   evaluated>>
    /\ UNCHANGED auxVars

\* router.patch('/:id', standardRateLimit, validateTicketStatus, updateTicket)
PatchTicket(t, status) ==
    /\ nUpdates < MaxUpdates
    /\ nUpdates' = nUpdates + 1
    /\ IF ~validateTicketStatus(status)
       THEN /\ patchResp' = 400
            /\ UNCHANGED tickets
       ELSE IF t \in 1..Len(tickets)
       THEN /\ tickets' = [tickets EXCEPT ![t] = updatedTicket(@, status)]
            /\ patchResp' = 200
       ELSE /\ patchResp' = 400
            /\ UNCHANGED tickets
    /\ UNCHANGED <<sensors, readings, trustScores, pc, args, snap, verdict,
                   existingTicket, outcome, nCalls, seeded, prior, seen, trace,
                   evaluated>>
    /\ UNCHANGED auxVars

\* what an Anomalous verdict hands to createMaintenanceTicket: diagnostic, severity
HandOffs ==
    {[status |-> "Anomalous", rootCauses |-> c, severity |-> sv,
      diagnostic |-> [lowTrust |-> {"moisture"}, causes |-> c, degrading |-> -1]] :
        c \in {{"SPIKE", "ZONE_MISMATCH"}, {"IMPOSSIBLE_VALUE"}},
        sv \in {"Medium", "Critical"}}

\* evaluateTrustScore reaches its hand-off with verdict v for sensor s
CallCreateTicket(p, s, v) ==
    /\ pc[p] = "idle"
    /\ nCalls < MaxCalls
    /\ nCalls' = nCalls + 1
    /\ pc' = [pc EXCEPT ![p] = "ticketFind"]
    /\ args' = [args EXCEPT ![p] = [NoArgs EXCEPT !.sensorId = s]]
    /\ verdict' = [verdict EXCEPT ![p] = v]
    /\ UNCHANGED <<sensors, readings, trustScores, tickets, snap, existingTicket,
                   outcome, patchResp, nUpdates, seeded, prior, seen, trace,
                   evaluated>>
    /\ UNCHANGED auxVars

(***************************************************************************)
(* Specifications                                                          *)
(***************************************************************************)
\* the ingest pipeline under concurrent requests
Next ==
    \/ \E p \in Procs, s \in SensorIds \cup {UnknownId}, d \in Payloads : CallIngest(p, s, d)
    \/ \E p \in Procs : FindSensor(p)
    \/ \E p \in Procs : CreateReading(p)
    \/ \E p \in Procs : LoadSensor(p)
    \/ \E p \in Procs : LoadZone(p)
    \/ \E p \in Procs : LoadZoneTrust(p)
    \/ \E p \in Procs : SaveTrust(p)
    \/ \E p \in Procs : TicketFindFirst(p)
    \/ \E p \in Procs : TicketCreate(p)
    \/ \E p \in Procs : Return(p)

Spec == Init /\ [][Next]_vars

\* the ticket manager: hand-offs from Anomalous verdicts and status updates
NextTickets ==
    \/ \E p \in Procs, s \in SensorIds, v \in HandOffs : CallCreateTicket(p, s, v)
    \/ \E p \in Procs : TicketFindFirst(p)
    \/ \E p \in Procs : TicketCreate(p)
    \/ \E p \in Procs : Return(p)
    \/ \E t \in 1..(Len(tickets) + 1), st \in TicketStatuses : UpdateTicketStatus(t, st)
    \/ \E t \in 1..(Len(tickets) + 1), st \in BodyStatuses : PatchTicket(t, st)

SpecTickets == Init /\ [][NextTickets]_vars

(***************************************************************************)
(* The ingest pipeline on a wet field: readings near the upper hard bound  *)
(***************************************************************************)
\* readings of a sensor in soil near saturation, oldest first
WetRows ==
    <<Row(9500, 2300, 130), Row(9600, 2200, 120),
      Row(9500, 2300, 130), Row(9600, 2200, 120)>>

\* request payloads: moisture on the hard bound, just beyond it and far beyond it
WetPayloads == {[moisture |-> 10000, temperature |-> 2200, ec |-> 120],
                [moisture |-> 10100, temperature |-> 2200, ec |-> 120],
                [moisture |-> 15000, temperature |-> 2200, ec |-> 120]}

InitWet ==
    /\ sensors = SensorIds
    /\ readings = [s \in SensorIds |-> WetRows]
    /\ seeded = readings
    /\ trustScores = [s \in SensorIds |-> <<InitialTrust>>]
    /\ tickets = <<>>
    /\ pc = [p \in Procs |-> "idle"]
    /\ args = [p \in Procs |-> NoArgs]
    /\ snap = [p \in Procs |-> NoSnap]
    /\ verdict = [p \in Procs |-> NoVerdict]
    /\ existingTicket = [p \in Procs |-> 0]
    /\ outcome = [p \in Procs |-> ""]
    /\ patchResp = 0
    /\ nCalls = 0
    /\ nUpdates = 0
    /\ prior = [p \in Procs |-> 0]
    /\ seen = [p \in Procs |-> 0]
    /\ trace = [p \in Procs |-> {}]
    /\ evaluated = [s \in SensorIds |-> <<>>]
    /\ InitQuiet
    /\ calc = NoCalc

NextWet ==
    \/ \E p \in Procs, s \in SensorIds, d \in WetPayloads : CallIngest(p, s, d)
    \/ \E p \in Procs : FindSensor(p)
    \/ \E p \in Procs : CreateReading(p)
    \/ \E p \in Procs : LoadSensor(p)
    \/ \E p \in Procs : LoadZone(p)
    \/ \E p \in Procs : LoadZoneTrust(p)
    \/ \E p \in Procs : SaveTrust(p)
    \/ \E p \in Procs : TicketFindFirst(p)
    \/ \E p \in Procs : TicketCreate(p)
    \/ \E p \in Procs : Return(p)

SpecWet == InitWet /\ [][NextWet]_vars

(***************************************************************************)
(* registerSensor (sensorRegistry.js)                                      *)
(***************************************************************************)
\* sensorIds offered for registration: one already registered, two new
NewSensorIds == {"s1", "s3", "s4"}

\* a unique index that lets every id through
sensorIdTakenNever(sensorId) == FALSE

\* CREATE UNIQUE INDEX "Sensor_sensorId_key": prisma.sensor.create rejects
sensorIdTaken(sensorId) == sensorId \in sensors

\* a table with the rows of a new sensor, none yet
withSensor(table, sensorId) ==
    [s \in (DOMAIN table) \cup {sensorId} |->
        IF s \in DOMAIN table THEN table[s] ELSE <<>>]

\* a request arrives: registerSensor(data) runs up to its first await
CallRegister(p, sensorId) ==
    /\ pc[p] = "idle"
    /\ nCalls < MaxCalls
    /\ nCalls' = nCalls + 1
    /\ pc' = [pc EXCEPT ![p] = "sensorCreate"]
    /\ args' = [args EXCEPT ![p] = [NoArgs EXCEPT !.sensorId = sensorId]]
    /\ UNCHANGED <<sensors, readings, trustScores, tickets, snap, verdict,
                   existingTicket, outcome, patchResp, nUpdates, seeded, prior,
                   seen, trace, evaluated>>
    /\ UNCHANGED auxVars

\* prisma.sensor.create; a duplicate sensorId throws 'Failed to register sensor'
SensorCreate(p) ==
    LET id == args[p].sensorId IN
    /\ pc[p] = "sensorCreate"
    /\ IF sensorIdTaken(id)
       THEN /\ pc' = [pc EXCEPT ![p] = "done"]
            /\ outcome' = [outcome EXCEPT ![p] = "error"]
            /\ UNCHANGED <<sensors, readings, trustScores, trace>>
       ELSE /\ sensors' = sensors \cup {id}
            /\ readings' = withSensor(readings, id)
            /\ trustScores' = withSensor(trustScores, id)
            /\ trace' = [trace EXCEPT ![p] = @ \cup {"sensor.create"}]
            /\ pc' = [pc EXCEPT ![p] = "trustCreate"]
            /\ UNCHANGED outcome
    /\ UNCHANGED <<tickets, args, snap, verdict, existingTicket, patchResp,
                   nCalls, nUpdates, seeded, prior, seen, evaluated>>
    /\ UNCHANGED auxVars

\* prisma.trustScore.create({ score: 100.0, status: 'Healthy' }); return sensor
InitialTrustCreate(p) ==
    /\ pc[p] = "trustCreate"
    /\ trustScores' = [trustScores EXCEPT ![args[p].sensorId] = Append(@, InitialTrust)]
    /\ trace' = [trace EXCEPT ![p] = @ \cup {"trustScore.create"}]
    /\ pc' = [pc EXCEPT ![p] = "done"]
    /\ outcome' = [outcome EXCEPT ![p] = "ok"]
    /\ UNCHANGED <<sensors, readings, tickets, args, snap, verdict, existingTicket,
                   patchResp, nCalls, nUpdates, seeded, prior, seen, evaluated>>
    /\ UNCHANGED auxVars

\* the sensor registry under concurrent requests
NextRegistry ==
    \/ \E p \in Procs, id \in NewSensorIds : CallRegister(p, id)
    \/ \E p \in Procs : SensorCreate(p)
    \/ \E p \in Procs : InitialTrustCreate(p)
    \/ \E p \in Procs : Return(p)

SpecRegistry == Init /\ [][NextRegistry]_vars

\* prisma.trustScore.create of registerSensor rejects after sensor.create went
\* through: 'Failed to register sensor', and the sensor row stays
InitialTrustCreateFails(p) ==
    /\ pc[p] = "trustCreate"
    /\ pc' = [pc EXCEPT ![p] = "done"]
    /\ outcome' = [outcome EXCEPT ![p] = "error"]
    /\ UNCHANGED <<sensors, readings, trustScores, tickets, args, snap, verdict,
                   existingTicket, patchResp, nCalls, nUpdates, seeded, prior,
                   seen, trace, evaluated>>
    /\ UNCHANGED auxVars

\* ensureSensorsExist(fieldId, sensorId) of the realtime loader:
\* prisma.sensor.upsert, which creates the sensor row and nothing else
EnsureSensorsExist(sensorId) ==
    /\ nCalls < MaxCalls
    /\ nCalls' = nCalls + 1
    /\ sensors' = sensors \cup {sensorId}
    /\ readings' = withSensor(readings, sensorId)
    /\ trustScores' = withSensor(trustScores, sensorId)
    /\ UNCHANGED <<tickets, pc, args, snap, verdict, existingTicket, outcome,
                   patchResp, nUpdates, seeded, prior, seen, trace, evaluated>>
    /\ UNCHANGED auxVars

\* getTrustScoreDistribution: the sensors counted by the status of their
\* latest TrustScore row; a sensor without a row is not counted
getTrustScoreDistribution(status) ==
    Cardinality({s \in sensors :
                    /\ trustScores[s] # <<>>
                    /\ trustScores[s][Len(trustScores[s])].status = status})

\* getDashboardSummary: sensors.total, healthy, warning, anomalous
getDashboardSummary ==
    [total     |-> Cardinality(sensors),
     healthy   |-> getTrustScoreDistribution("Healthy"),
     warning   |-> getTrustScoreDistribution("Warning"),
     anomalous |-> getTrustScoreDistribution("Anomalous")]

\* the Sensor table under registerSensor over a store that can fail and the
\* realtime loader's upsert
NextSensors ==
    \/ NextRegistry
    \/ \E p \in Procs : InitialTrustCreateFails(p)
    \/ \E id \in NewSensorIds : EnsureSensorsExist(id)

SpecSensors == Init /\ [][NextSensors]_vars

\* a call of createMaintenanceTicket to the ticket store rejects: the catch of
\* createMaintenanceTicket rethrows, the catch of evaluateTrustScore logs and
\* rethrows, the catch of ingestReading throws 'Failed to ingest reading'
TicketStoreFails(p) ==
    /\ pc[p] \in {"ticketFind", "ticketCreate"}
    /\ pc' = [pc EXCEPT ![p] = "done"]
    /\ outcome' = [outcome EXCEPT ![p] = "error"]
    /\ UNCHANGED <<sensors, readings, trustScores, tickets, args, snap, verdict,
                   existingTicket, patchResp, nCalls, nUpdates, seeded, prior,
                   seen, trace, evaluated>>
    /\ UNCHANGED auxVars

\* the ingest pipeline with a ticket store that can fail
NextFaults ==
    \/ Next
    \/ \E p \in Procs : TicketStoreFails(p)

SpecFaults == Init /\ [][NextFaults]_vars

\* a store call of evaluateTrustScore rejects after the reading was persisted:
\* its catch logs and rethrows, the catch of ingestReading throws
\* 'Failed to ingest reading'
EvaluateFails(p) ==
    /\ pc[p] \in {"loadSensor", "loadZone", "zoneReliability", "saveTrust"}
    /\ pc' = [pc EXCEPT ![p] = "done"]
    /\ outcome' = [outcome EXCEPT ![p] = "error"]
    /\ UNCHANGED <<sensors, readings, trustScores, tickets, args, snap, verdict,
                   existingTicket, patchResp, nCalls, nUpdates, seeded, prior,
                   seen, trace, evaluated>>
    /\ UNCHANGED auxVars

\* the ingest pipeline over a store whose every call after reading.create can fail
NextStoreFaults ==
    \/ NextFaults
    \/ \E p \in Procs : EvaluateFails(p)

SpecStoreFaults == Init /\ [][NextStoreFaults]_vars

(***************************************************************************)
(* ingestBatchReadings (dataIngestion.js)                                  *)
(***************************************************************************)
\* readings in one call of ingestBatchReadings
MaxBatch == 3

\* the elements of a batch: a sensorId, registered or not, and its probes
BatchItems ==
    {[sensorId |-> s, moisture |-> d.moisture, temperature |-> d.temperature, ec |-> d.ec] :
        s \in SensorIds \cup {UnknownId}, d \in Payloads}

RECURSIVE SeqsUpTo(_, _)
SeqsUpTo(S, n) ==
    IF n = 0 THEN {<<>>}
    ELSE LET shorter == SeqsUpTo(S, n - 1)
         IN  shorter \cup {Append(q, x) : q \in {r \in shorter : Len(r) = n - 1}, x \in S}

\* results.push({ success: true, data: result }) or
\* results.push({ success: false, error: error.message })
batchResult(ok, reading) ==
    IF ok THEN [success |-> TRUE, data |-> reading, error |-> ""]
    ELSE [success |-> FALSE, data |-> NoArgs, error |-> "Failed to ingest reading"]

\* a loop whose catch rethrows: the first failure ends it
loopGoesOnAfterSuccess(success) == success

\* the catch inside the for loop pushes the failure; the loop goes on
loopGoesOn(success) == TRUE

\* ingestBatchReadings(readings): results = [], then the first ingestReading
\* runs up to its first await; an empty array returns [] at once
CallBatch(p, rs) ==
    /\ pc[p] = "idle"
    /\ batch.proc = 0
    /\ IF rs = <<>>
       THEN /\ batch' = [NoBatch EXCEPT !.proc = p, !.returned = TRUE]
            /\ UNCHANGED <<pc, args>>
       ELSE /\ batch' = [NoBatch EXCEPT !.proc = p, !.readings = rs, !.log = <<<<"start", 1>>>>]
            /\ pc' = [pc EXCEPT ![p] = "findSensor"]
            /\ args' = [args EXCEPT ![p] = rs[1]]
    /\ UNCHANGED <<sensors, readings, trustScores, tickets, snap, verdict,
                   existingTicket, outcome, patchResp, nCalls, nUpdates, seeded, prior,
                   seen, trace, evaluated>>
    /\ UNCHANGED <<calc, emitted, limiterVars, loaderVars>>

\* ingestReading has settled: its outcome is pushed, then the loop takes the
\* next reading or ingestBatchReadings returns results
BatchStep(p) ==
    LET i       == Len(batch.results) + 1
        ok      == outcome[p] = "ok"
        results == Append(batch.results, batchResult(ok, args[p]))
        more    == i < Len(batch.readings) /\ loopGoesOn(ok)
    IN
    /\ pc[p] = "done"
    /\ batch.proc = p
    /\ ~batch.returned
    /\ batch' = [batch EXCEPT
                   !.results  = results,
                   !.log      = IF more THEN @ \o <<<<"end", i>>, <<"start", i + 1>>>>
                                ELSE Append(@, <<"end", i>>),
                   !.returned = ~more]
    /\ pc' = [pc EXCEPT ![p] = IF more THEN "findSensor" ELSE "idle"]
    /\ args' = [args EXCEPT ![p] = IF more THEN batch.readings[i + 1] ELSE NoArgs]
    /\ snap' = [snap EXCEPT ![p] = NoSnap]
    /\ verdict' = [verdict EXCEPT ![p] = NoVerdict]
    /\ existingTicket' = [existingTicket EXCEPT ![p] = 0]
    /\ outcome' = [outcome EXCEPT ![p] = ""]
    /\ prior' = [prior EXCEPT ![p] = 0]
    /\ seen' = [seen EXCEPT ![p] = 0]
    /\ trace' = [trace EXCEPT ![p] = {}]
    /\ UNCHANGED <<sensors, readings, trustScores, tickets, patchResp, nCalls,
                   nUpdates, seeded, evaluated>>
    /\ UNCHANGED <<calc, emitted, limiterVars, loaderVars>>

\* one call of ingestBatchReadings over a ticket store that can fail
NextBatch ==
    \/ \E p \in Procs, rs \in SeqsUpTo(BatchItems, MaxBatch) : CallBatch(p, rs)
    \/ \E p \in Procs : BatchStep(p)
    \/ \E p \in Procs : FindSensor(p)
    \/ \E p \in Procs : CreateReading(p)
    \/ \E p \in Procs : LoadSensor(p)
    \/ \E p \in Procs : LoadZone(p)
    \/ \E p \in Procs : LoadZoneTrust(p)
    \/ \E p \in Procs : SaveTrust(p)
    \/ \E p \in Procs : TicketFindFirst(p)
    \/ \E p \in Procs : TicketCreate(p)
    \/ \E p \in Procs : TicketStoreFails(p)

SpecBatch == Init /\ [][NextBatch]_vars

(***************************************************************************)
(* The socket.io broadcaster (utils/websocket.js) and its callers          *)
(***************************************************************************)
\* calls of the WebSocket test endpoint in one behaviour
MaxBroadcasts == 1

\* broadcastDashboardUpdate(data) with io initialised: io.emit('dashboard:update', data)
broadcastDashboardUpdate(log, sensorId) ==
    Append(log, [event |-> "dashboard:update", sensorId |-> sensorId])

\* broadcastNewReading(reading) with io initialised: io.emit('reading:new', reading);
\* no module calls it
broadcastNewReading(log, reading) ==
    Append(log, [event |-> "reading:new", sensorId |-> reading.sensorId])

\* app.post('/api/test/websocket'): the one caller of a broadcast function
TestBroadcast ==
    /\ Len(emitted) < MaxBroadcasts
    /\ emitted' = broadcastDashboardUpdate(emitted, "")
    /\ UNCHANGED <<pipelineVars, calc, batch, limiterVars, loaderVars>>

\* the ingest pipeline beside the WebSocket test endpoint
NextEvents ==
    \/ Next
    \/ TestBroadcast

SpecEvents == Init /\ [][NextEvents]_vars

(***************************************************************************)
(* rateLimit (middleware/rateLimit.js)                                     *)
(***************************************************************************)
\* requests sent to rate-limited routes in one behaviour
MaxRequests == 4

\* the clock stops here
MaxTime == 5

\* 60000 ms in clock ticks: windowMs of every limiter and the age and period
\* of the cleanup timer
Minute == 2

\* req.ip of the clients
Clients == {"c1", "c2"}

\* strictRateLimit, standardRateLimit and lenientRateLimit: rateLimit(20, 60000),
\* rateLimit(100, 60000) and rateLimit(200, 60000), the limits scaled down
Limiters ==
    [strict   |-> [maxRequests |-> 1, windowMs |-> Minute],
     standard |-> [maxRequests |-> 2, windowMs |-> Minute],
     lenient  |-> [maxRequests |-> 3, windowMs |-> Minute]]

\* !rateLimitData || now - rateLimitData.resetTime > windowMs
windowOver(store, clientId, t, windowMs) ==
    clientId \notin DOMAIN store \/ t - store[clientId].resetTime > windowMs

\* a test that lets one request more through
overLimitByTwo(count, maxRequests) == count > maxRequests + 1

\* rateLimitData.count > maxRequests
overLimit(count, maxRequests) == count > maxRequests

\* a request of client clientId reaches limiter l: the middleware runs to its
\* end, answering 429 or calling next()
Request(l, clientId) ==
    LET lim   == Limiters[l]
        fresh == windowOver(rateLimitStore, clientId, now, lim.windowMs)
        data0 == IF fresh THEN [count |-> 0, resetTime |-> now]
                 ELSE rateLimitStore[clientId]
        data  == [data0 EXCEPT !.count = @ + 1]
        over  == overLimit(data.count, lim.maxRequests)
    IN
    /\ Len(requestLog) < MaxRequests
    /\ rateLimitStore' = [c \in DOMAIN rateLimitStore \cup {clientId} |->
                             IF c = clientId THEN data ELSE rateLimitStore[c]]
    /\ response' = [status |-> IF over THEN 429 ELSE 200, limiter |-> l, clientId |-> clientId]
    /\ requestLog' = Append(requestLog,
                        [limiter |-> l, clientId |-> clientId, time |-> now,
                         resetTime |-> data.resetTime, status |-> IF over THEN 429 ELSE 200,
                         next |-> ~over])
    /\ UNCHANGED now
    /\ UNCHANGED <<pipelineVars, calc, emitted, batch, loaderVars>>

\* the setInterval callback: entries older than one minute are deleted
Cleanup ==
    /\ now > 0
    /\ now % Minute = 0
    /\ rateLimitStore' = [c \in {d \in DOMAIN rateLimitStore :
                                    ~(now - rateLimitStore[d].resetTime > Minute)} |->
                             rateLimitStore[c]]
    /\ UNCHANGED <<now, response, requestLog>>
    /\ UNCHANGED <<pipelineVars, calc, emitted, batch, loaderVars>>

\* Date.now() advances
Tick ==
    /\ now < MaxTime
    /\ now' = now + 1
    /\ UNCHANGED <<rateLimitStore, response, requestLog>>
    /\ UNCHANGED <<pipelineVars, calc, emitted, batch, loaderVars>>

\* the rate-limited routes under requests of two clients
NextLimiter ==
    \/ \E l \in DOMAIN Limiters, c \in Clients : Request(l, c)
    \/ Cleanup
    \/ Tick

\* the stores as seeded, no request seen yet
InitLimiter ==
    /\ Init
    /\ readings["s2"] = SeedRows(4)

SpecLimiter == InitLimiter /\ [][NextLimiter]_vars

(***************************************************************************)
(* The scorer's pure functions applied to drawn arguments                  *)
(***************************************************************************)
\* the scores computeTemporalScore and computeCrossScore can return
TemporalScoreSeq ==
    <<TEMPORAL_SCORES.normal, TEMPORAL_SCORES.moderate, TEMPORAL_SCORES.extreme,
      TEMPORAL_SCORES.static, TEMPORAL_SCORES.drift>>

CrossScoreSeq == <<CROSS_SCORES.normal, CROSS_SCORES.moderate, CROSS_SCORES.extreme>>

\* the scores computePhysicalScore can return: 1.0 less any sum of penalties,
\* not below PHYSICAL_SCORES.extreme
PhysicalScoreSet == {10000, 7000, 6000, 4000, 3000, 1000}

\* the i-th pair of a temporal and a cross score
SubScorePair(i) ==
    [temporal |-> TemporalScoreSeq[((i - 1) \div Len(CrossScoreSeq)) + 1],
     cross    |-> CrossScoreSeq[((i - 1) % Len(CrossScoreSeq)) + 1]]

\* sub-scores of the four parameters (the mean does not depend on their
\* order, so the pairs are drawn in non-decreasing order) and a physical score
AggregateInputs ==
    LET n == Len(TemporalScoreSeq) * Len(CrossScoreSeq) IN
    {[fn |-> "aggregate",
      args |-> [subScores |-> [i \in 1..4 |-> SubScorePair(t[i])], physical |-> ph],
      result |-> <<>>, applied |-> FALSE] :
        t \in {u \in [1..4 -> 1..n] : u[1] <= u[2] /\ u[2] <= u[3] /\ u[3] <= u[4]},
        ph \in PhysicalScoreSet}

\* the per-parameter loop and computeSensorTrust of evaluateTrustScore
ApplyAggregate ==
    /\ calc.fn = "aggregate"
    /\ ~calc.applied
    /\ LET paramTrusts == [p \in ParamSet |->
               LET i == CHOOSE k \in 1..Len(Params) : Params[k] = p IN
               computeParamTrust(calc.args.subScores[i].temporal,
                                 calc.args.subScores[i].cross, calc.args.physical)]
       IN  calc' = [calc EXCEPT !.applied = TRUE,
                                !.result = [paramTrusts |-> paramTrusts,
                                            score |-> computeSensorTrust(paramTrusts)]]
    /\ UNCHANGED <<pipelineVars, emitted, batch, limiterVars, loaderVars>>

\* scores around the thresholds of computeSeverity, in units of 10^-4
ScoreGrid == {0, 1499, 1500, 1501, 4999, 5000, 5001, 6499, 6500, 6501, 10000}

\* the sets classifyRootCauses can return
RootCauseSets == {{"NORMAL"}} \cup (SUBSET (ROOT_CAUSE \ {"NORMAL"}) \ {{}})

SeverityInputs ==
    {[fn |-> "severity", args |-> [T1 |-> a, T2 |-> b, rootCauses |-> rc],
      result |-> <<>>, applied |-> FALSE] :
        a \in ScoreGrid, b \in ScoreGrid, rc \in RootCauseSets}

\* computeSeverity on two scores and one set of root causes
ApplySeverity ==
    /\ calc.fn = "severity"
    /\ ~calc.applied
    /\ calc' = [calc EXCEPT !.applied = TRUE,
                            !.result = [S1 |-> computeSeverity(calc.args.T1, calc.args.rootCauses),
                                        S2 |-> computeSeverity(calc.args.T2, calc.args.rootCauses)]]
    /\ UNCHANGED <<pipelineVars, emitted, batch, limiterVars, loaderVars>>

\* engine v2.0, TRUST_CONFIG.OFFLINE_THRESHOLD_MS = 15 * 60 * 1000, in minutes
OFFLINE_THRESHOLD_MIN == 15

\* engine v2.0, checkOnlineStatus: age of the latest reading in minutes,
\* nullCount of the n newest readings with all four probes null
checkOnlineStatus(hasTimestamp, age, nullCount, n) ==
    IF ~hasTimestamp THEN FALSE
    ELSE IF age > OFFLINE_THRESHOLD_MIN THEN FALSE
    ELSE IF 2 * nullCount > n THEN FALSE
    ELSE TRUE

\* engine v2.0, classifyRootCauses(paramDetails, physical, onlineStatus)
classifyRootCausesV2(paramDetails, physical, online) ==
    IF ~online THEN {"SENSOR_OFFLINE"}
    ELSE classifyRootCauses(paramDetails, physical)

\* the causes computeTemporalScore and computeCrossScore attach to a parameter
CausePair(i) ==
    [temporalCause |-> <<"NORMAL", "SPIKE", "STATIC", "DRIFT">>[((i - 1) \div 3) + 1],
     crossCause    |-> <<"NORMAL", "ZONE_MISMATCH", "FIELD_EVENT">>[((i - 1) % 3) + 1]]

\* the causes computePhysicalScore can return
PhysicalCauseSets ==
    {{"NORMAL"}, {"IMPOSSIBLE_VALUE"}, {"WEATHER_MISMATCH"}, {"SPIKE"},
     {"WEATHER_MISMATCH", "SPIKE"}}

\* per-parameter causes (drawn in non-decreasing order, the union does not
\* depend on their order), physical causes, and for engine v2.0 the facts
\* checkOnlineStatus reads
ClassifyInputs ==
    {[fn |-> "classify",
      args |-> [engine |-> e.engine,
                paramDetails |-> [p \in ParamSet |->
                    CausePair(t[CHOOSE k \in 1..Len(Params) : Params[k] = p])],
                physical |-> [causes |-> pc0],
                age |-> e.age, nullCount |-> e.nullCount],
      result |-> <<>>, applied |-> FALSE] :
        t \in {u \in [1..4 -> 1..12] : u[1] <= u[2] /\ u[2] <= u[3] /\ u[3] <= u[4]},
        pc0 \in PhysicalCauseSets,
        e \in {[engine |-> "v3", age |-> 0, nullCount |-> 0]}
              \cup {[engine |-> "v2", age |-> a, nullCount |-> k] :
                       a \in {OFFLINE_THRESHOLD_MIN, OFFLINE_THRESHOLD_MIN + 1},
                       k \in {5, 6}}}

\* classifyRootCauses as evaluateTrustScore of either engine calls it
ApplyClassify ==
    /\ calc.fn = "classify"
    /\ ~calc.applied
    /\ calc' = [calc EXCEPT !.applied = TRUE,
                  !.result =
                     IF calc.args.engine = "v3"
                     THEN classifyRootCauses(calc.args.paramDetails, calc.args.physical)
                     ELSE classifyRootCausesV2(calc.args.paramDetails, calc.args.physical,
                              checkOnlineStatus(TRUE, calc.args.age,
                                                calc.args.nullCount, 10))]
    /\ UNCHANGED <<pipelineVars, emitted, batch, limiterVars, loaderVars>>

InitScorer ==
    /\ InitPipeline
    /\ readings["s2"] = SeedRows(4)
    /\ InitQuiet
    /\ calc \in AggregateInputs \cup SeverityInputs \cup ClassifyInputs

NextScorer ==
    \/ ApplyAggregate
    \/ ApplySeverity
    \/ ApplyClassify

SpecScorer == InitScorer /\ [][NextScorer]_vars

(***************************************************************************)
(* computeHealthTrend on the TrustScore rows of one sensor                 *)
(***************************************************************************)
\* TrustScore rows one more than TREND_WINDOW can be drawn
MaxTrustRows == 11

\* score of the oldest row and change from one row to the next, in 10^-4
TrendStarts == {1000, 5000, 9000}

TrendSteps == {-600, -350, -200, -50, 0, 50, 200, 350, 600}

\* the rows of a sensor in the order they were persisted: a steady run of
\* scores, the last one moved by a bump
TrendHistories ==
    {[i \in 1..n |->
        LET sc == start + step * (i - 1) + (IF i = n THEN bump ELSE 0)
        IN  [score |-> sc, status |-> interpretTrust(sc).status]] :
        n \in 0..MaxTrustRows, start \in TrendStarts, step \in TrendSteps,
        bump \in {0, 300}}
    \cap Seq([score : 0..10000, status : {"Healthy", "Warning", "Anomalous"}])

TrendInputs ==
    {[fn |-> "trend", args |-> [history |-> h], result |-> <<>>, applied |-> FALSE] :
        h \in TrendHistories}

\* evaluateTrustScore: sensor.trustScores as findUnique returns them, then
\* computeHealthTrend and computeFailurePrediction
ApplyTrend ==
    LET recent      == Take(Reverse(calc.args.history), TREND_WINDOW)
        healthTrend == computeHealthTrend(recent)
    IN
    /\ calc.fn = "trend"
    /\ ~calc.applied
    /\ calc' = [calc EXCEPT !.applied = TRUE,
                  !.result = [healthTrend       |-> healthTrend.trend,
                              healthSlope       |-> healthTrend.slope,
                              anomalyRate       |-> healthTrend.anomalyRate,
                              failurePrediction |-> computeFailurePrediction(healthTrend)]]
    /\ UNCHANGED <<pipelineVars, emitted, batch, limiterVars, loaderVars>>

InitTrend ==
    /\ InitPipeline
    /\ readings["s2"] = SeedRows(4)
    /\ InitQuiet
    /\ calc \in TrendInputs

NextTrend == ApplyTrend

SpecTrend == InitTrend /\ [][NextTrend]_vars

(***************************************************************************)
(* computeCrossScore on the readings of the zone's other sensors           *)
(***************************************************************************)
\* other sensors of the zone
MaxPeers == 3

\* a reading that carries the moisture probe, or lacks it (Null)
ProbeRow(m) == Row(m, 2200, 120)

\* what findMany returns for one peer, newest reading first: no reading at
\* all, or a latest reading with or without the probe in front of a history
\* that is short, level at 30 % or level at 60 %
PeerReadings ==
    {<<>>}
    \cup {<<ProbeRow(m)>> \o h :
            m \in {Null, 3000, 6000},
            h \in {<<>>,
                   <<ProbeRow(2900), ProbeRow(3100)>>,
                   <<ProbeRow(5900), ProbeRow(6100)>>}}

CrossInputs ==
    {[fn |-> "cross", args |-> [param |-> "moisture", val |-> v, zoneSensors |-> z],
      result |-> <<>>, applied |-> FALSE] :
        v \in {3000, 6000, 9000}, z \in SeqsUpTo(PeerReadings, MaxPeers)}

\* evaluateTrustScore: zoneArrays and zoneHistories of the parameter, then
\* computeCrossScore
ApplyCross ==
    /\ calc.fn = "cross"
    /\ ~calc.applied
    /\ calc' = [calc EXCEPT !.applied = TRUE,
                  !.result = computeCrossScore(calc.args.param, calc.args.val,
                                 zoneArray(calc.args.zoneSensors, calc.args.param),
                                 zoneHistory(calc.args.zoneSensors, calc.args.param))]
    /\ UNCHANGED <<pipelineVars, emitted, batch, limiterVars, loaderVars>>

InitCross ==
    /\ InitPipeline
    /\ readings["s2"] = SeedRows(4)
    /\ InitQuiet
    /\ calc \in CrossInputs

NextCross == ApplyCross

SpecCross == InitCross /\ [][NextCross]_vars

(***************************************************************************)
(* The per-parameter scores of a reading that lacks a probe                *)
(***************************************************************************)
\* earlier readings of the sensor that are drawn
MaxProbeHistory == 4

\* the sensor's earlier values of the probe, newest first
ProbeHistories == SeqsUpTo({Null, 2900, 3100}, MaxProbeHistory)

\* the zone: no peer, or one peer whose latest reading carries the probe
ProbeZones ==
    {<<>>,
     <<<<ProbeRow(3000)>>>>,
     <<<<ProbeRow(3000), ProbeRow(2900), ProbeRow(3100)>>>>}

NullProbeInputs ==
    {[fn |-> "nullProbe",
      args |-> [param |-> "moisture",
                readings |-> <<ProbeRow(Null)>> \o [i \in 1..Len(h) |-> ProbeRow(h[i])],
                zoneSensors |-> z],
      result |-> <<>>, applied |-> FALSE] :
        h \in ProbeHistories, z \in ProbeZones}

\* evaluateTrustScore: the parameter loop for one parameter of sensor.readings
ApplyNullProbe ==
    LET latest   == calc.args.readings[1]
        physical == computePhysicalScore(latest, Null, Null, latest.airTemp, FALSE, FALSE)
    IN
    /\ calc.fn = "nullProbe"
    /\ ~calc.applied
    /\ calc' = [calc EXCEPT !.applied = TRUE,
                  !.result = paramDetail(calc.args.param, calc.args.readings,
                                         calc.args.zoneSensors, physical)]
    /\ UNCHANGED <<pipelineVars, emitted, batch, limiterVars, loaderVars>>

InitNullProbe ==
    /\ InitPipeline
    /\ readings["s2"] = SeedRows(4)
    /\ InitQuiet
    /\ calc \in NullProbeInputs

NextNullProbe == ApplyNullProbe

SpecNullProbe == InitNullProbe /\ [][NextNullProbe]_vars

(***************************************************************************)
(* Properties of the ticket manager                                        *)
(***************************************************************************)
\* C1: at every moment every sensor has at most one ticket whose status is Open
C1_AtMostOneOpen ==
    \A s \in SensorIds : Cardinality(openTicketsOf(tickets, s)) <= 1

\* C2: when two concurrent ingests of the same sensor have both gone through the
\* ticket hand-off, the check for an Open ticket and the create were serialised:
\* exactly one Open ticket exists for the sensor
C2_OneTicketAfterConcurrentIngests ==
    \A p, q \in Procs, s \in SensorIds :
        (/\ p # q
         /\ pc[p] = "done" /\ args[p].sensorId = s /\ "ticket.findFirst" \in trace[p]
         /\ pc[q] = "done" /\ args[q].sensorId = s /\ "ticket.findFirst" \in trace[q])
            => Cardinality(openTicketsOf(tickets, s)) = 1

\* C5: a ticket's status only moves Open -> InProgress, InProgress -> Resolved
\* or Open -> Resolved; nothing leaves Resolved
C5_TransitionsOnlyForward ==
    [][\A t \in 1..Len(tickets) :
          tickets'[t].status # tickets[t].status
              => <<tickets[t].status, tickets'[t].status>> \in
                     {<<"Open", "InProgress">>, <<"InProgress", "Resolved">>,
                      <<"Open", "Resolved">>}]_vars

\* C6: a ticket has a resolvedAt timestamp exactly when its status is Resolved
C6_ResolvedAtIffResolved ==
    \A t \in 1..Len(tickets) :
        (tickets[t].resolvedAt # Null) <=> (tickets[t].status = "Resolved")

\* C7: every stored ticket status is one of Open, InProgress, Resolved, also
\* after a PATCH through validateTicketStatus and updateTicketStatus
C7_StatusInStoreVocabulary ==
    \A t \in 1..Len(tickets) : tickets[t].status \in TicketStatuses

\* C3: a handler that persisted a verdict hands off to the ticket manager
\* exactly when the verdict is Anomalous without FIELD_EVENT; otherwise it ends
\* without reading, creating or changing a ticket; and when the hand-off has
\* returned the sensor has an Open ticket
C3_HandOffIffAnomalousWithoutFieldEvent ==
    \A p \in Procs :
        "trustScore.create" \in trace[p] =>
            IF verdict[p].status = "Anomalous" /\ "FIELD_EVENT" \notin verdict[p].rootCauses
            THEN /\ pc[p] \in {"ticketFind", "ticketCreate", "done"}
                 /\ pc[p] = "done" =>
                      /\ "ticket.findFirst" \in trace[p]
                      /\ openTicketsOf(tickets, args[p].sensorId) # {}
            ELSE /\ pc[p] = "done"
                 /\ trace[p] \cap {"ticket.findFirst", "ticket.create"} = {}
                 /\ existingTicket[p] = 0

\* two handlers have answered: one with an Anomalous verdict that is no field
\* event and an Open ticket, one with an Anomalous field event and no hand-off
C3_BothVerdictKindsAnswered ==
    \E p, q \in Procs :
        /\ pc[p] = "done" /\ pc[q] = "done"
        /\ verdict[p].status = "Anomalous" /\ "FIELD_EVENT" \notin verdict[p].rootCauses
        /\ "ticket.create" \in trace[p]
        /\ openTicketsOf(tickets, args[p].sensorId) # {}
        /\ verdict[q].status = "Anomalous" /\ "FIELD_EVENT" \in verdict[q].rootCauses
        /\ "trustScore.create" \in trace[q]

\* the order None < Low < Medium < High < Critical
SeverityRank(sv) ==
    CASE sv = "None" -> 0 [] sv = "Low" -> 1 [] sv = "Medium" -> 2
      [] sv = "High" -> 3 [] sv = "Critical" -> 4 [] OTHER -> 2

\* C4: when createMaintenanceTicket finds an Open ticket, no ticket is added,
\* the ticket's issue becomes the new diagnostic and its severity the maximum
\* of the old and the new severity
C4_ReDetectionUpdatesTicket ==
    [][\A p \in Procs :
          (pc[p] = "ticketFind" /\ pc'[p] = "done") =>
              LET t == existingTicket'[p] IN
              /\ Len(tickets') = Len(tickets)
              /\ tickets'[t].issue = verdict[p].diagnostic
              /\ SeverityRank(tickets'[t].severity) =
                     Max2(SeverityRank(tickets[t].severity),
                          SeverityRank(verdict[p].severity))]_vars

\* C8: per sensor, the persisted verdicts were computed on strictly growing
\* histories, and once no handler is running every appended reading that had
\* at least 5 readings up to itself was evaluated as the newest one
C8_EachReadingEvaluatedOnceInOrder ==
    \A s \in SensorIds :
        LET ev == evaluated[s] IN
        /\ \A i, j \in 1..Len(ev) : i < j => ev[i] < ev[j]
        /\ (\A p \in Procs : pc[p] = "idle") =>
               {ev[i] : i \in 1..Len(ev)} =
                   {n \in (Len(seeded[s]) + 1)..Len(readings[s]) : n >= 5}

\* ingestReading(s, row) run alone on the tables st
serialIngest(st, s, row) ==
    LET rd   == [st.readings EXCEPT ![s] = Append(@, row)]
        rows == ownReadings(rd, s)
        zone == zoneReadings(rd, s)
    IN  IF insufficientHistory(Len(rows))
        THEN [readings |-> rd, trustScores |-> st.trustScores]
        ELSE [readings |-> rd,
              trustScores |-> [st.trustScores EXCEPT ![s] =
                  Append(@, scoreReading(rows, ownTrustScores(st.trustScores, s), zone,
                                computeZoneReliability(Len(zone),
                                    zoneTrusts(st.trustScores, s))))]]

RECURSIVE serialRun(_, _, _)
\* the calls that appended the last row of rd[s], run one after another in order
serialRun(st, order, rd) ==
    IF order = <<>> THEN st
    ELSE serialRun(serialIngest(st, Head(order), rd[Head(order)][Len(rd[Head(order)])]),
                   Tail(order), rd)

\* C9: once the handlers of ingests on distinct sensors have all returned, the
\* TrustScore rows of every sensor are those of the calls run in some serial order
C9_DistinctSensorsSerialisable ==
    LET called == {s \in SensorIds : Len(readings[s]) > Len(seeded[s])}
        orders == {o \in [1..Cardinality(called) -> called] :
                      \A i, j \in 1..Cardinality(called) : o[i] = o[j] => i = j}
        start  == [readings |-> seeded,
                   trustScores |-> [s \in SensorIds |-> <<InitialTrust>>]]
    IN  (/\ \A p \in Procs : pc[p] = "idle"
         /\ \A s \in SensorIds : Len(readings[s]) <= Len(seeded[s]) + 1)
            => \E o \in orders : serialRun(start, o, readings).trustScores = trustScores

\* C10 as stated: a handler that appended to fewer than 5 prior readings
\* succeeds without persisting a TrustScore or touching a ticket, and one that
\* appended to 5 or more prior readings persists a TrustScore
C10_FewerThanFivePriorReadings ==
    \A p \in Procs :
        (pc[p] = "done" /\ "reading.create" \in trace[p]) =>
            /\ outcome[p] = "ok"
            /\ IF prior[p] < 5
               THEN trace[p] = {"reading.create"} /\ existingTicket[p] = 0
               ELSE "trustScore.create" \in trace[p]

\* C10: a handler that appended its reading and then found fewer than 5
\* readings of the sensor, its own included, succeeds without persisting a
\* TrustScore or touching a ticket; one that found 5 or more persists a TrustScore
C10_FewerThanFiveReadingsInStore ==
    \A p \in Procs :
        (pc[p] = "done" /\ "reading.create" \in trace[p]) =>
            /\ outcome[p] = "ok"
            /\ seen[p] >= prior[p] + 1
            /\ IF seen[p] < 5
               THEN trace[p] = {"reading.create"} /\ existingTicket[p] = 0
                    /\ verdict[p] = NoVerdict
               ELSE "trustScore.create" \in trace[p]

\* both sides of the limit: one handler answered on 4 readings without a
\* verdict, one answered on 4 prior readings plus its own with a verdict
C10_BothSidesOfTheLimit ==
    \E p, q \in Procs :
        /\ pc[p] = "done" /\ outcome[p] = "ok" /\ seen[p] = 4
        /\ trace[p] = {"reading.create"}
        /\ pc[q] = "done" /\ outcome[q] = "ok" /\ prior[q] = 4 /\ seen[q] = 5
        /\ "trustScore.create" \in trace[q]

(***************************************************************************)
(* Properties of error handling and registration                           *)
(***************************************************************************)
\* C11: a call for a sensorId that is not registered never gets past the sensor
\* lookup, writes no reading, TrustScore or ticket, and ends with an error
C11_UnknownSensorRejected ==
    \A p \in Procs :
        (pc[p] # "idle" /\ args[p].sensorId \notin sensors) =>
            /\ pc[p] \in {"findSensor", "done"}
            /\ trace[p] = {}
            /\ existingTicket[p] = 0
            /\ pc[p] = "done" => outcome[p] = "error"

\* a call for the unregistered id has been rejected while the other handler,
\* for a registered sensor, has appended its reading
C11_UnknownRejectedBesideKnown ==
    \E p, q \in Procs :
        /\ pc[p] = "done" /\ args[p].sensorId = UnknownId /\ outcome[p] = "error"
        /\ \A s \in SensorIds : Len(trustScores[s]) = 1
        /\ tickets = <<>>
        /\ "reading.create" \in trace[q]

\* C12: a handler that has persisted its reading and its TrustScore reports
\* success when it returns, whatever happened in the ticket hand-off
C12_TicketFailureDoesNotFailIngest ==
    \A p \in Procs :
        (pc[p] = "done" /\ {"reading.create", "trustScore.create"} \subseteq trace[p])
            => outcome[p] = "ok"

\* C13: registerSensor for a sensorId that is already registered ends with an
\* error and writes nothing: sensors, readings, TrustScores and tickets stay
C13_DuplicateRegistrationIsNoOp ==
    [][\A p \in Procs :
          (pc[p] = "sensorCreate" /\ pc'[p] # "sensorCreate"
             /\ args[p].sensorId \in sensors) =>
              /\ pc'[p] = "done"
              /\ outcome'[p] = "error"
              /\ trace'[p] = {}
              /\ UNCHANGED <<sensors, readings, trustScores, tickets>>]_vars

\* a registration of the registered id s1 was rejected after the other handler
\* had registered a new sensor; s1 still has its one initial TrustScore
C13_DuplicateRejected ==
    \E p \in Procs :
        /\ pc[p] = "done" /\ args[p].sensorId = "s1" /\ outcome[p] = "error"
        /\ trace[p] = {}
        /\ readings["s1"] = seeded["s1"]
        /\ Len(trustScores["s1"]) = 1
        /\ sensors # SensorIds

\* C14: when registerSensor has succeeded, the sensor is registered and has
\* exactly one TrustScore row, with score 1.0 and status Healthy
C14_InitialTrustIsOne ==
    \A p \in Procs :
        (pc[p] = "done" /\ outcome[p] = "ok" /\ "sensor.create" \in trace[p]) =>
            LET rows == trustScores[args[p].sensorId] IN
            /\ args[p].sensorId \in sensors
            /\ Len(rows) = 1
            /\ rows[1].score = 10000
            /\ rows[1].status = "Healthy"

C16_RootCausesClosedSet ==
    (calc.fn = "classify" /\ calc.applied) =>
        /\ calc.result # {}
        /\ calc.result \subseteq ROOT_CAUSE
        /\ "NORMAL" \in calc.result <=> calc.result = {"NORMAL"}

\* C17: for one set of root causes and two scores T1 < T2, the severity at T1
\* ranks at least as high as the severity at T2
C17_SeverityMonotone ==
    (calc.fn = "severity" /\ calc.applied /\ calc.args.T1 < calc.args.T2) =>
        SeverityRank(calc.result.S1) >= SeverityRank(calc.result.S2)

\* the severity drops from High to Low as the score passes 0.5
C17_SeverityDrops ==
    /\ calc.fn = "severity" /\ calc.applied
    /\ calc.args.T1 = 4999 /\ calc.args.T2 = 5000
    /\ calc.result.S1 = "High" /\ calc.result.S2 = "Low"

(***************************************************************************)
(* Properties of ingestBatchReadings                                       *)
(***************************************************************************)
\* the rows ingestBatchReadings' readings add to the Reading table of sensor s
RECURSIVE batchRowsOf(_, _)
batchRowsOf(rs, s) ==
    IF rs = <<>> THEN <<>>
    ELSE LET r == rs[1]
         IN  (IF r.sensorId = s THEN <<Row(r.moisture, r.temperature, r.ec)>> ELSE <<>>)
             \o batchRowsOf(Tail(rs), s)

\* C18: ingestBatchReadings ingests its readings one after another in input
\* order and returns one outcome per reading in that order; a failed reading
\* is recorded as a failure and the readings after it are still ingested
C18_BatchSequentialOneOutcomeEach ==
    batch.returned =>
        LET n == Len(batch.readings) IN
        /\ Len(batch.results) = n
        /\ Len(batch.log) = 2 * n
        /\ \A i \in 1..n :
              /\ batch.log[2 * i - 1] = <<"start", i>>
              /\ batch.log[2 * i] = <<"end", i>>
              /\ batch.results[i].success => batch.results[i].data = batch.readings[i]
              /\ batch.readings[i].sensorId \notin sensors => ~batch.results[i].success
              /\ ~batch.results[i].success => batch.results[i].error # ""
        /\ \A s \in SensorIds : readings[s] = seeded[s] \o batchRowsOf(batch.readings, s)

\* a batch of three has returned: the first reading ingested, the second
\* failed, the third ingested and persisted after it
C18_FailureThenSuccess ==
    /\ batch.returned
    /\ Len(batch.readings) = 3
    /\ batch.results[1].success
    /\ ~batch.results[2].success
    /\ batch.results[3].success
    /\ batch.readings[3].sensorId = "s1"
    /\ Len(readings["s1"]) > Len(seeded["s1"])

(***************************************************************************)
(* Properties of the broadcaster                                           *)
(***************************************************************************)
\* the events emitted about sensor s
eventsAbout(s) == {emitted[i].event : i \in {j \in 1..Len(emitted) : emitted[j].sensorId = s}}

\* C19: every successful ingest emits reading.new after its reading is
\* persisted, and trust.updated and dashboard.update when it produced a
\* TrustResult; an ingest for an unknown sensor emits no event
C19_IngestEmitsEvents ==
    \A p \in Procs :
        /\ (pc[p] = "done" /\ outcome[p] = "ok") =>
              /\ "reading:new" \in eventsAbout(args[p].sensorId)
              /\ "trustScore.create" \in trace[p] =>
                    {"trust:updated", "dashboard:update"} \subseteq eventsAbout(args[p].sensorId)
        /\ (pc[p] = "done" /\ sensorMissing(args[p].sensorId)) =>
              eventsAbout(args[p].sensorId) = {}

(***************************************************************************)
(* Properties of the rate limiter                                          *)
(***************************************************************************)
\* the requests of client c that limiter l passed on in the window opened at w
passedInWindow(l, c, w) ==
    {i \in 1..Len(requestLog) :
        /\ requestLog[i].limiter = l
        /\ requestLog[i].clientId = c
        /\ requestLog[i].resetTime = w
        /\ requestLog[i].next}

\* request k is the first of its client after the window of request i is over
firstAfterWindow(i, k) ==
    /\ i < k
    /\ requestLog[k].clientId = requestLog[i].clientId
    /\ requestLog[k].time - requestLog[i].resetTime > Limiters[requestLog[k].limiter].windowMs
    /\ \A j \in (i + 1)..(k - 1) :
          requestLog[j].clientId = requestLog[i].clientId =>
              ~(requestLog[j].time - requestLog[i].resetTime
                    > Limiters[requestLog[j].limiter].windowMs)

DatasetRow(k) == Row(3000 + (10 * k), 2200, 120)

\* the for loop over the file's sensors, from the i-th on: the first sensor
\* whose readings are not all inserted according to state (0: none is left)
nextSensor(state, i) ==
    LET left == {j \in i..Len(DatasetSensors) : state[j] < DatasetLen}
    IN IF left = {} THEN 0 ELSE CHOOSE j \in left : \A k \in left : j <= k

\* loadState(): the parsed state file; a sensor it lacks starts at position 0
loadState == stateFile

\* saveState(state): writeFileSync of the whole state, a write error swallowed
saveState(state, written) == IF written THEN state ELSE stateFile

\* a run starts: main's initial run, awaited, and after it the interval timer's
\* runs, each started whether or not the one before has finished; the run
\* loads the state and goes on to its first await
StartRun(r) ==
    /\ runs[r].pc = "idle"
    /\ \/ r = 1
       \/ r > 1 /\ runs[1].pc = "done" /\ runs[r - 1].pc # "idle"
    /\ LET state == loadState
           j == nextSensor(state, 1)
       IN runs' = [runs EXCEPT ![r] =
                      IF j = 0
                      THEN [pc |-> "count", state |-> state, i |-> 0, endIndex |-> 0]
                      ELSE [pc |-> "ensure", state |-> state, i |-> j, endIndex |-> 0]]
    /\ UNCHANGED <<stateFile, inserted>>
    /\ UNCHANGED <<pipelineVars, calc, emitted, batch, limiterVars>>

\* await ensureSensorsExist(field_id, sensor_id) returns: the sensor is upserted
\* and the next batch of readings is sliced
EnsureSensor(r) ==
    /\ runs[r].pc = "ensure"
    /\ LET sensorId == DatasetSensors[runs[r].i]
           currentIndex == runs[r].state[runs[r].i]
           endIndex == IF currentIndex + BATCH_SIZE < DatasetLen
                       THEN currentIndex + BATCH_SIZE ELSE DatasetLen
       IN /\ sensors' = sensors \cup {sensorId}
          /\ readings' = withSensor(readings, sensorId)
          /\ trustScores' = withSensor(trustScores, sensorId)
          /\ runs' = [runs EXCEPT ![r].pc = "createMany", ![r].endIndex = endIndex]
    /\ UNCHANGED <<stateFile, inserted>>
    /\ UNCHANGED <<tickets, pc, args, snap, verdict, existingTicket, outcome,
                   patchResp, nCalls, nUpdates, seeded, prior, seen, trace, evaluated>>
    /\ UNCHANGED <<calc, emitted, batch, limiterVars>>

\* await prisma.reading.createMany returns: the batch is in the Reading table
CreateMany(r) ==
    /\ runs[r].pc = "createMany"
    /\ LET i == runs[r].i
           sensorId == DatasetSensors[i]
           currentIndex == runs[r].state[i]
           batchReadings == [k \in 1..(runs[r].endIndex - currentIndex) |->
                                DatasetRow(currentIndex + k)]
       IN /\ readings' = [readings EXCEPT ![sensorId] = @ \o batchReadings]
          /\ inserted' = [inserted EXCEPT ![i] =
                [k \in 1..DatasetLen |->
                    IF currentIndex < k /\ k <= runs[r].endIndex THEN @[k] + 1 ELSE @[k]]]
    /\ runs' = [runs EXCEPT ![r].pc = "evaluate"]
    /\ UNCHANGED stateFile
    /\ UNCHANGED <<sensors, trustScores, tickets, pc, args, snap, verdict, existingTicket,
                   outcome, patchResp, nCalls, nUpdates, seeded, prior, seen, trace,
                   evaluated>>
    /\ UNCHANGED <<calc, emitted, batch, limiterVars>>

\* await evaluateTrustScore(sensor.id) returns or throws (its result is only
\* logged): the sensor's position moves on in the run's state, and the loop
\* goes to the next sensor or, after the last one, saves the state
EvaluateLoaded(r) ==
    /\ runs[r].pc = "evaluate"
    /\ LET state == [runs[r].state EXCEPT ![runs[r].i] = runs[r].endIndex]
           j == nextSensor(state, runs[r].i + 1)
       IN IF j = 0
          THEN /\ \E written \in BOOLEAN : stateFile' = saveState(state, written)
               /\ runs' = [runs EXCEPT ![r].pc = "count", ![r].state = state]
          ELSE /\ UNCHANGED stateFile
               /\ runs' = [runs EXCEPT ![r].pc = "ensure", ![r].state = state, ![r].i = j]
    /\ UNCHANGED inserted
    /\ UNCHANGED <<pipelineVars, calc, emitted, batch, limiterVars>>

\* the upsert or createMany throws: the catch around the file ends the loop over
\* its sensors and the state, without the sensor's new position, is saved
LoaderFails(r) ==
    /\ runs[r].pc \in {"ensure", "createMany"}
    /\ \E written \in BOOLEAN : stateFile' = saveState(runs[r].state, written)
    /\ runs' = [runs EXCEPT ![r].pc = "count"]
    /\ UNCHANGED inserted
    /\ UNCHANGED <<pipelineVars, calc, emitted, batch, limiterVars>>

\* await prisma.reading.count() returns or throws: the run returns
CountDone(r) ==
    /\ runs[r].pc = "count"
    /\ runs' = [runs EXCEPT ![r].pc = "done"]
    /\ UNCHANGED <<stateFile, inserted>>
    /\ UNCHANGED <<pipelineVars, calc, emitted, batch, limiterVars>>

NextLoader ==
    \E r \in 1..MaxRuns :
        \/ StartRun(r)
        \/ EnsureSensor(r)
        \/ CreateMany(r)
        \/ EvaluateLoaded(r)
        \/ LoaderFails(r)
        \/ CountDone(r)

InitLoader ==
    /\ Init
    /\ readings["s2"] = SeedRows(4)

SpecLoader == InitLoader /\ [][NextLoader]_vars

(***************************************************************************)
(* Properties of the health trend                                          *)
(***************************************************************************)
\* the slope of the sensor's last TREND_WINDOW scores over time, oldest first
slopeOverTime(history) ==
    LET n    == Len(history)
        last == SubSeq(history, Max2(1, n - TREND_WINDOW + 1), n)
    IN  linearSlope([i \in 1..Len(last) |-> last[i].score])

\* C21: when the last 3 to 10 persisted scores fall over time with slope below
\* -0.01 per result the verdict reports degrading, with a failure prediction
\* when the slope is below -0.03; when they rise with slope above 0.01 it
\* reports improving
C21_TrendFollowsScoresOverTime ==
    (calc.fn = "trend" /\ calc.applied /\ Len(calc.args.history) >= 3) =>
        LET slope == slopeOverTime(calc.args.history) IN
        /\ slope.num < -100 * slope.den => calc.result.healthTrend = "degrading"
        /\ slope.num < -300 * slope.den => calc.result.failurePrediction # ""
        /\ slope.num > 100 * slope.den => calc.result.healthTrend = "improving"

\* C25: with fewer than 3 prior TrustResults the verdict's healthTrend is
\* unknown with slope 0
C25_ShortHistoryTrendUnknown ==
    (calc.fn = "trend" /\ calc.applied /\ Len(calc.args.history) < 3) =>
        calc.result.healthTrend = "unknown" /\ calc.result.healthSlope = 0

(***************************************************************************)
(* Properties of the physical check                                        *)
(***************************************************************************)
\* the reading ingestReading persisted for handler p
ingested(p) == Row(args[p].moisture, args[p].temperature, args[p].ec)

\* handler p has returned a reading for which a verdict was persisted
verdictProduced(p) ==
    /\ pc[p] = "done"
    /\ outcome[p] = "ok"
    /\ "trustScore.create" \in trace[p]

\* C22: whenever an ingested reading has a probe outside its hard bounds and
\* a verdict is produced, the physical score is 0.1, rootCauses contains
\* ImpossibleValue, severity is Critical and the sensor has an Open ticket
\* after the ingest
C22_ImpossibleValueCriticalWithTicket ==
    \A p \in Procs :
        (verdictProduced(p) /\ \E param \in ParamSet : OutOfBounds(ingested(p), param)) =>
            /\ computePhysicalScore(ingested(p), Null, Null, Null, FALSE, FALSE).score
                  = PHYSICAL_SCORES.extreme
            /\ "IMPOSSIBLE_VALUE" \in verdict[p].rootCauses
            /\ verdict[p].severity = "Critical"
            /\ openTicketsOf(tickets, args[p].sensorId) # {}

(***************************************************************************)
(* Properties of the cross-zone check                                      *)
(***************************************************************************)
\* the peers whose latest reading carries the probe
peersWithProbe(zoneSensors, param) ==
    {i \in 1..Len(zoneSensors) : zoneSensors[i] # <<>> /\ zoneSensors[i][1][param] # Null}

\* peer i's latest value against the mean of that same peer's history, in
\* hundredths of a percent
ownChange(zoneSensors, param, i) ==
    LET hist == FilterNull(Column(Tail(zoneSensors[i]), param))
        hS   == SumSeq(hist)
        hn   == Len(hist)
    IN  IF hn < 2 \/ hS = 0 THEN 0
        ELSE (10000 * Abs(hn * zoneSensors[i][1][param] - hS)) \div Abs(hS)

RECURSIVE SumOver(_, _, _, _)
SumOver(zoneSensors, param, peers, i) ==
    IF i > Len(zoneSensors) THEN 0
    ELSE (IF i \in peers THEN ownChange(zoneSensors, param, i) ELSE 0)
         + SumOver(zoneSensors, param, peers, i + 1)

\* the mean of the peers' own changes exceeds cross_normal, the mean taken
\* over the k peers counted
peersChanged(zoneSensors, param, k) ==
    /\ k > 0
    /\ SumOver(zoneSensors, param, peersWithProbe(zoneSensors, param), 1)
          > CROSS_THRESHOLDS[param].normal * 100 * k

\* the probe's deviation from the peer mean exceeds cross_moderate
extremeDeviation(zoneSensors, param, val) ==
    LET latests == zoneArray(zoneSensors, param)
        S == SumSeq(latests)
    IN  /\ latests # <<>>
        /\ S # 0
        /\ Abs(Len(latests) * val - S) * 100 > CROSS_THRESHOLDS[param].moderate * Abs(S)

\* C23: when a probe's deviation from the peer mean exceeds cross_moderate the
\* cross cause is FieldEvent (score 0.5) exactly when the mean of the peers'
\* own changes, each peer's latest value against that peer's own history,
\* exceeds cross_normal, and ZoneMismatch (score 0.1) otherwise, also when
\* peers lack the probe (such a peer may count as unchanged or not at all)
C23_FieldEventIffPeersChanged ==
    (calc.fn = "cross" /\ calc.applied
     /\ extremeDeviation(calc.args.zoneSensors, calc.args.param, calc.args.val)) =>
        LET z       == calc.args.zoneSensors
            among   == peersChanged(z, calc.args.param,
                                    Cardinality(peersWithProbe(z, calc.args.param)))
            overAll == peersChanged(z, calc.args.param, Len(z))
        IN  /\ (among /\ overAll) =>
                  calc.result.cause = "FIELD_EVENT" /\ calc.result.score = 5000
            /\ (~among /\ ~overAll) =>
                  calc.result.cause = "ZONE_MISMATCH" /\ calc.result.score = 1000

(***************************************************************************)
(* Properties of the zone reliability                                      *)
(***************************************************************************)
\* C24: the zoneReliability of a verdict is null when no other sensor of the
\* zone has a TrustResult, and otherwise is the mean of the peers' most recent
\* scores and lies in [0, 1]
C24_ZoneReliabilityInUnitInterval ==
    \A p \in Procs :
        verdict[p].status # "null" =>
            IF zoneTrusts(trustScores, args[p].sensorId) = <<>>
            THEN verdict[p].zoneReliability = Null
            ELSE /\ verdict[p].zoneReliability # Null
                 /\ verdict[p].zoneReliability >= 0
                 /\ verdict[p].zoneReliability <= 10000
                 /\ \E k \in 1..Len(trustScores[zonePeers(args[p].sensorId)[1]]) :
                       verdict[p].zoneReliability
                          = computeZoneReliability(1,
                               <<trustScores[zonePeers(args[p].sensorId)[1]][k]>>)

(***************************************************************************)
(* Properties of the Reading table                                         *)
(***************************************************************************)
\* C26: readings are append-only across ingest: when scoring, TrustResult
\* persistence or ticket creation fails after the reading was persisted,
\* ingestReading reports an error and the reading stays in the store as
\* written, and no ingest removes or changes an earlier reading
C26_ReadingsAppendOnly ==
    [][/\ \A s \in SensorIds :
             /\ Len(readings'[s]) >= Len(readings[s])
             /\ SubSeq(readings'[s], 1, Len(readings[s])) = readings[s]
       /\ \A p \in Procs :
             (pc'[p] = "done" /\ "reading.create" \in trace'[p]) =>
                /\ prior'[p] < Len(readings'[args'[p].sensorId])
                /\ readings'[args'[p].sensorId][prior'[p] + 1]
                      = Row(args'[p].moisture, args'[p].temperature, args'[p].ec)
                /\ (pc[p] # "done" /\ EvaluateFails(p)) => outcome'[p] = "error"
                /\ (pc[p] # "done" /\ TicketStoreFails(p)) => outcome'[p] = "error"]_vars

\* a call failed after its reading was persisted, and the reading is the
\* newest row of its sensor
C26_FailedAfterPersist ==
    \E p \in Procs :
        /\ pc[p] = "done"
        /\ outcome[p] = "error"
        /\ "reading.create" \in trace[p]
        /\ Len(readings[args[p].sensorId]) = prior[p] + 1
        /\ readings[args[p].sensorId][prior[p] + 1] = ingested(p)

(***************************************************************************)
(* Properties of absent probes                                             *)
(***************************************************************************)
\* C27: a probe that is absent (null) in the current reading incurs no
\* penalty: whatever the sensor's history and its peers' values, its temporal
\* and cross-zone causes are Normal with sub-score 1.0
C27_AbsentProbeNotPenalised ==
    (calc.fn = "nullProbe" /\ calc.applied
     /\ calc.args.readings[1][calc.args.param] = Null) =>
        /\ calc.result.temporalCause = "NORMAL"
        /\ calc.result.temporal = 10000
        /\ calc.result.crossCause = "NORMAL"
        /\ calc.result.cross = 10000

(***************************************************************************)
(* Properties of the dashboard summary                                     *)
(***************************************************************************)
\* C28: every sensor in the store has at least one TrustResult, so that
\* getDashboardSummary reports healthy + warning + anomalous equal to the
\* total sensor count, after any sequence of registerSensor (also one whose
\* second write fails) and the realtime loader's sensor upsert
C28_EverySensorHasTrustResult ==
    (\A p \in Procs : pc[p] = "idle") =>
        /\ \A s \in sensors : trustScores[s] # <<>>
        /\ getDashboardSummary.healthy + getDashboardSummary.warning
              + getDashboardSummary.anomalous = getDashboardSummary.total

\* C29: rate-limit budgets are independent per limiter: a client's requests
\* to one limiter never reduce the number of requests another limiter admits
\* for it in the window, so a limiter answers 429 only after it has itself
\* passed maxRequests requests of that client in the window
C29_BudgetsIndependentPerLimiter ==
    \A i \in 1..Len(requestLog) :
        LET r == requestLog[i] IN
        r.status = 429 =>
            Cardinality({j \in passedInWindow(r.limiter, r.clientId, r.resetTime) : j < i})
                = Limiters[r.limiter].maxRequests

(***************************************************************************)
(* Properties of the realtime loader                                       *)
(***************************************************************************)
\* C30: across any runs of insertRealtimeBatch, overlapping ones included, each
\* reading of the dataset file is inserted into the store at most once, and a
\* sensor's saved position in the state file never exceeds the number of that
\* sensor's readings actually inserted
C30_EachReadingInsertedOnce ==
    \A i \in 1..Len(DatasetSensors) :
        /\ \A k \in 1..DatasetLen : inserted[i][k] <= 1
        /\ stateFile[i] <= Cardinality({k \in 1..DatasetLen : inserted[i][k] >= 1})

=============================================================================
